---- MODULE Spec2Model ----
(***************************************************************************)
(* Model of the data coordinator of the Atlantic Heat Pump Explorer        *)
(* integration (custom_components/atlantic_heat_pump_explorer/             *)
(* coordinator.py): the snapshot (ExplorerData), the Setup normalizer      *)
(* (_process_setup, _process_device), the event processor (_process_event  *)
(* and its handlers), the poll cycle (_async_update_data) split at its     *)
(* two await points, and the read accessors; and of the entry life cycle   *)
(* (__init__.py): async_setup_entry and async_unload_entry, split at their *)
(* await points, with the registry hass.data[DOMAIN].                      *)
(*                                                                         *)
(* Time is an integer count of clock ticks, TicksPerSecond ticks to the    *)
(* second; datetime.now() reads the variable now, which the Tick action     *)
(* moves forward.                                                          *)
(***************************************************************************)
EXTENDS Integers, Sequences, FiniteSets, TLC

VARIABLES
    devices,            \* ExplorerData.devices: device_url -> DeviceData
    gateways,           \* ExplorerData.gateways: list of gateway descriptors
    events_log,         \* ExplorerData.events_log: list of event records
    last_full_refresh,  \* ExplorerData.last_full_refresh: None or <<time>>
    event_count,        \* AtlanticDataCoordinator._event_count
    pc,                 \* position of _async_update_data
    pending,            \* the events of the fetched batch not yet processed
    now,                \* the clock read by datetime.now()
    result,             \* how the last finished poll cycle ended
    cycle0,             \* history: the snapshot when the current cycle began
    ops,                \* history: the last two snapshot-mutating operations
    readAt,             \* history: position of the refresh at the last read
    entry_pc,           \* position of async_setup_entry / async_unload_entry
    entry_setup,        \* async_setup_entry's local setup: None or <<Setup>>
    coordinator,        \* whether this setup attempt constructed a coordinator
    close_calls,        \* calls of close() on the client of this setup attempt
    hass_data,          \* hass.data[DOMAIN]: entry_id -> record
    platforms,          \* whether the host has the entry's platforms set up
    entry_result,       \* how the last async_setup_entry / async_unload_entry ended
    client,             \* the client of this setup attempt: none, created, logged_in
    entities,           \* the entities the platforms created for the entry
    flow,               \* the config flow: its step, position and outcome
    script              \* a run of scripts/explore_api.py

entryVars == <<entry_pc, entry_setup, coordinator, close_calls, hass_data,
               platforms, entry_result, client, entities>>

toolVars == <<flow, script>>

vars == <<devices, gateways, events_log, last_full_refresh, event_count, pc,
          pending, now, result, cycle0, ops, readAt, entryVars, toolVars>>

(***************************************************************************)
(* Bounds of the model and constants of the program.                       *)
(***************************************************************************)
MaxEvents == 2          \* events processed in a run of Spec
MaxLogEvents == 1002    \* events processed in a run of SpecLog
TicksPerSecond == 2     \* resolution of the model clock

MAX_LOG == 1000         \* coordinator.py:224
RefreshAfter == 300     \* coordinator.py:198
DaySeconds == 86400     \* range of timedelta.seconds, coordinator.py:198

Sec(n) == n * TicksPerSecond

None == <<>>
Some(x) == <<x>>
EmptyMap == [x \in {} |-> 0]

Put(f, k, v) == [x \in (DOMAIN f) \cup {k} |-> IF x = k THEN v ELSE f[x]]

LastN(seq, n) == SubSeq(seq, Len(seq) - n + 1, Len(seq))

(***************************************************************************)
(* The external model: Setup, Device, Event (pyoverkiz), as far as the     *)
(* coordinator reads them.                                                 *)
(***************************************************************************)
St(n, v) == [name |-> n, value |-> v]

Dev(url, label, avail, states) ==
    [device_url |-> url, label |-> label, widget |-> "HeatPump",
     available |-> avail, states |-> states,
     attributes |-> <<St("core:Manufacturer", 1)>>,
     commands |-> <<"setTargetTemperature">>]

SetupA == [gateways |-> <<"gw-1">>,
           devices |-> <<Dev("dev-1", "Boiler", TRUE, <<St("s1", 45)>>)>>]
SetupB == [gateways |-> <<"gw-1">>,
           devices |-> <<Dev("dev-1", "Boiler", TRUE, <<St("s1", 45)>>),
                         Dev("dev-2", "Pump", TRUE, <<St("s1", 45)>>)>>]
SetupC == [gateways |-> <<"gw-2">>,
           devices |-> <<Dev("dev-2", "Pump", FALSE, <<St("s2", 46)>>)>>]

\* a Setup that lists the same device identifier twice
SetupD == [gateways |-> <<"gw-1">>,
           devices |-> <<Dev("dev-1", "Boiler", TRUE, <<St("s1", 45)>>),
                         Dev("dev-1", "Boiler-bis", FALSE, <<St("s2", 46)>>)>>]

Setups == {SetupA, SetupB, SetupC}

Missing == "<no attribute>"

NoEvent == [name |-> "", device_url |-> "", device_states |-> <<>>]
StateChanged(items) ==
    [name |-> "DeviceStateChangedEvent", device_url |-> "", device_states |-> items]
Item(url, states) == [device_url |-> url, states |-> states]
Available(url) ==
    [name |-> "DeviceAvailableEvent", device_url |-> url, device_states |-> <<>>]
Unavailable(url) ==
    [name |-> "DeviceUnavailableEvent", device_url |-> url, device_states |-> <<>>]
Created(url) ==
    [name |-> "DeviceCreatedEvent", device_url |-> url, device_states |-> <<>>]
Updated(url) ==
    [name |-> "DeviceUpdatedEvent", device_url |-> url, device_states |-> <<>>]
OtherEvent ==
    [name |-> "ExecutionRegisteredEvent", device_url |-> "", device_states |-> <<>>]
\* a state-changed event one of whose payload items lacks the attribute the
\* handler reads: the attribute access raises AttributeError
Malformed == StateChanged(<<Item(Missing, <<>>)>>)

Events ==
    { StateChanged(<<Item("dev-1", <<St("s1", 46)>>)>>),
      StateChanged(<<Item("dev-1", <<St("s1", 45)>>)>>),
      StateChanged(<<Item("dev-2", <<St("s1", 46)>>)>>),
      Unavailable("dev-1"),
      Available("dev-1"),
      Created("dev-2"),
      Malformed }

RECURSIVE SeqsUpTo(_, _)
SeqsUpTo(S, n) ==
    IF n = 0 THEN {<<>>}
    ELSE LET shorter == SeqsUpTo(S, n - 1)
         IN  shorter \cup {Append(q, e) : q \in shorter, e \in S}

Instants == {0, Sec(301)}

ApiErrors == {"NotAuthenticatedException", "ClientError", "TooManyRequestsException"}

(***************************************************************************)
(* Setup normalizer: _extract_all_attributes, _process_device,             *)
(* _process_setup.                                                         *)
(***************************************************************************)
\* the reflection sweep over a gateway: its readable scalar fields
ExtractGateway(gw) == [gateway_id |-> gw, alive |-> TRUE]

\* the reflection sweep over a device: scalar fields are kept as they are
ExtractDevice(device) ==
    [device_url |-> device.device_url, label |-> device.label,
     available |-> device.available]

\* type(value).__name__
TypeName(v) == IF v \in Int THEN "int" ELSE "str"

StateEntry(state) ==
    [value |-> state.value, type |-> TypeName(state.value),
     raw |-> <<state.name, state.value>>]

AttrEntry(attr) == [value |-> attr.value, type |-> TypeName(attr.value)]

\* for x in seq: d[x.name] = ...   (a later item of the same name wins)
RECURSIVE PutStates(_, _)
PutStates(d, seq) ==
    IF seq = <<>> THEN d
    ELSE PutStates(Put(d, Head(seq).name, StateEntry(Head(seq))), Tail(seq))

RECURSIVE PutAttrs(_, _)
PutAttrs(d, seq) ==
    IF seq = <<>> THEN d
    ELSE PutAttrs(Put(d, Head(seq).name, AttrEntry(Head(seq))), Tail(seq))

process_device(device, t) ==
    [device_url |-> device.device_url,
     label |-> device.label,
     widget |-> device.widget,
     available |-> device.available,
     states |-> PutStates(EmptyMap, device.states),
     attributes |-> PutAttrs(EmptyMap, device.attributes),
     commands |-> device.commands,
     raw_data |-> ExtractDevice(device),
     last_updated |-> t]

\* for gateway in setup.gateways: self._data.gateways.append(...)
RECURSIVE AppendGateways(_, _)
AppendGateways(gws, seq) ==
    IF seq = <<>> THEN gws
    ELSE AppendGateways(Append(gws, ExtractGateway(Head(seq))), Tail(seq))

\* variant: a device already in the mapping is left as it is (setdefault)
RECURSIVE PutDevices_KeepsExisting(_, _, _)
PutDevices_KeepsExisting(devs, seq, t) ==
    IF seq = <<>> THEN devs
    ELSE PutDevices_KeepsExisting(
            IF Head(seq).device_url \in DOMAIN devs THEN devs
            ELSE Put(devs, Head(seq).device_url, process_device(Head(seq), t)),
            Tail(seq), t)

\* variant: the mapping is emptied before the devices of the Setup are put
RECURSIVE PutInto(_, _, _)
PutInto(devs, seq, t) ==
    IF seq = <<>> THEN devs
    ELSE PutInto(Put(devs, Head(seq).device_url, process_device(Head(seq), t)),
                 Tail(seq), t)

PutDevices_ClearsFirst(devs, seq, t) == PutInto(EmptyMap, seq, t)

\* variant: the entry is stored under the device's label
RECURSIVE PutDevices_KeyedByLabel(_, _, _)
PutDevices_KeyedByLabel(devs, seq, t) ==
    IF seq = <<>> THEN devs
    ELSE PutDevices_KeyedByLabel(
            Put(devs, Head(seq).label, process_device(Head(seq), t)), Tail(seq), t)

\* variant: the states of the Setup are merged into those of an existing entry
RECURSIVE PutDevices_MergesStates(_, _, _)
PutDevices_MergesStates(devs, seq, t) ==
    IF seq = <<>> THEN devs
    ELSE LET url == Head(seq).device_url
             new == process_device(Head(seq), t)
             old == IF url \in DOMAIN devs THEN devs[url].states ELSE EmptyMap
         IN  PutDevices_MergesStates(
                Put(devs, url, [new EXCEPT !.states = PutStates(old, Head(seq).states)]),
                Tail(seq), t)

\* for device in setup.devices: self._data.devices[device.device_url] = ...
RECURSIVE PutDevices(_, _, _)
PutDevices(devs, seq, t) ==
    IF seq = <<>> THEN devs
    ELSE PutDevices(Put(devs, Head(seq).device_url, process_device(Head(seq), t)),
                    Tail(seq), t)

\* variant: the time of the refresh is not recorded
process_setup_NoStamp(devs, gws, setup, t) ==
    [devices |-> PutDevices(devs, setup.devices, t),
     gateways |-> AppendGateways(gws, setup.gateways),
     last_full_refresh |-> None]

\* the snapshot fields _process_setup writes
process_setup(devs, gws, setup, t) ==
    [devices |-> PutDevices(devs, setup.devices, t),
     gateways |-> AppendGateways(gws, setup.gateways),
     last_full_refresh |-> Some(t)]

(***************************************************************************)
(* Event processor: _handle_state_change, _handle_availability_change and  *)
(* the dispatch of _process_event.  Each returns the device mapping and    *)
(* whether the handler raised.                                             *)
(***************************************************************************)
\* variant: a state that already has an entry keeps it (first value wins)
RECURSIVE ApplyStates_FirstWins(_, _, _)
ApplyStates_FirstWins(d, states, t) ==
    IF states = <<>> THEN d
    ELSE ApplyStates_FirstWins(
            [d EXCEPT !.states = IF Head(states).name \in DOMAIN d.states THEN @
                                 ELSE Put(@, Head(states).name, StateEntry(Head(states))),
                      !.last_updated = t],
            Tail(states), t)

\* variant: only the states the device already has are written
RECURSIVE ApplyStates_KnownNamesOnly(_, _, _)
ApplyStates_KnownNamesOnly(d, states, t) ==
    IF states = <<>> THEN d
    ELSE ApplyStates_KnownNamesOnly(
            [d EXCEPT !.states = IF Head(states).name \in DOMAIN d.states
                                 THEN Put(@, Head(states).name, StateEntry(Head(states)))
                                 ELSE @,
                      !.last_updated = t],
            Tail(states), t)

\* for state in device_state.states: overwrite the entry, stamp the device
RECURSIVE ApplyStates(_, _, _)
ApplyStates(d, states, t) ==
    IF states = <<>> THEN d
    ELSE ApplyStates(
            [d EXCEPT !.states = Put(d.states, Head(states).name, StateEntry(Head(states))),
                      !.last_updated = t],
            Tail(states), t)

\* variant: an unknown identifier gets a fresh entry instead of being skipped
UpdateDevice_CreatesEntry(devs, url, states, t) ==
    IF url \in DOMAIN devs
    THEN [devs EXCEPT ![url] = ApplyStates(@, states, t)]
    ELSE Put(devs, url,
             ApplyStates(process_device(Dev(url, "", TRUE, <<>>), t), states, t))

\* if device_url in self._data.devices: for state in device_state.states: ...
UpdateDevice(devs, url, states, t) ==
    IF url \in DOMAIN devs
    THEN [devs EXCEPT ![url] = ApplyStates(@, states, t)]
    ELSE devs

\* for device_state in event.device_states; reading device_url of an item
\* that lacks the attribute raises, after the earlier items were applied
RECURSIVE ApplyItems(_, _, _)
ApplyItems(devs, items, t) ==
    IF items = <<>> THEN [devices |-> devs, raised |-> FALSE]
    ELSE IF Head(items).device_url = Missing
         THEN [devices |-> devs, raised |-> TRUE]
    ELSE ApplyItems(UpdateDevice(devs, Head(items).device_url, Head(items).states, t),
                    Tail(items), t)

handle_state_change(devs, event, t) ==
    IF event.device_states = <<>>
    THEN [devices |-> devs, raised |-> FALSE]
    ELSE ApplyItems(devs, event.device_states, t)

\* variant: the flag is flipped instead of set to the argument
handle_availability_change_Toggles(devs, event, available) ==
    IF event.device_url # "" /\ event.device_url \in DOMAIN devs
    THEN [devices |-> [devs EXCEPT ![event.device_url].available = ~@],
          raised |-> FALSE]
    ELSE [devices |-> devs, raised |-> FALSE]

handle_availability_change(devs, event, available) ==
    IF event.device_url # "" /\ event.device_url \in DOMAIN devs
    THEN [devices |-> [devs EXCEPT ![event.device_url].available = available],
          raised |-> FALSE]
    ELSE [devices |-> devs, raised |-> FALSE]

\* variant: a device-created event adds an entry for the device it names
Dispatch_CreatedAddsDevice(devs, event, t) ==
    IF event.name = "DeviceStateChangedEvent" THEN handle_state_change(devs, event, t)
    ELSE IF event.name = "DeviceAvailableEvent"
         THEN handle_availability_change(devs, event, TRUE)
    ELSE IF event.name = "DeviceUnavailableEvent"
         THEN handle_availability_change(devs, event, FALSE)
    ELSE IF event.name = "DeviceCreatedEvent"
         THEN [devices |-> Put(devs, event.device_url,
                               process_device(Dev(event.device_url, "", TRUE, <<>>), t)),
               raised |-> FALSE]
    ELSE [devices |-> devs, raised |-> FALSE]

Dispatch(devs, event, t) ==
    IF event.name = "DeviceStateChangedEvent" THEN handle_state_change(devs, event, t)
    ELSE IF event.name = "DeviceAvailableEvent"
         THEN handle_availability_change(devs, event, TRUE)
    ELSE IF event.name = "DeviceUnavailableEvent"
         THEN handle_availability_change(devs, event, FALSE)
    ELSE [devices |-> devs, raised |-> FALSE]

\* variant: the entry gets the counter's value from before the increment
EventData_NumbersBeforeIncrement(event, n, t) ==
    [timestamp |-> t, event_number |-> n - 1, name |-> event.name, raw |-> event]

\* the record _process_event appends to the log
EventData(event, n, t) ==
    [timestamp |-> t, event_number |-> n, name |-> event.name, raw |-> event]

\* variant: the slice keeps the first MAX_LOG entries, [:1000] for [-1000:]
AppendCapped_KeepsOldest(log, entry) ==
    LET log1 == Append(log, entry)
    IN  IF Len(log1) > MAX_LOG THEN SubSeq(log1, 1, MAX_LOG) ELSE log1

\* variant: the log is restarted when it overflows
AppendCapped_Restarts(log, entry) ==
    LET log1 == Append(log, entry)
    IN  IF Len(log1) > MAX_LOG THEN <<entry>> ELSE log1

\* variant: the entry is inserted at the front of the log
AppendCapped_Prepends(log, entry) ==
    LET log1 == <<entry>> \o log
    IN  IF Len(log1) > MAX_LOG THEN LastN(log1, MAX_LOG) ELSE log1

\* append, then keep only the last MAX_LOG entries
AppendCapped(log, entry) ==
    LET log1 == Append(log, entry)
    IN  IF Len(log1) > MAX_LOG THEN LastN(log1, MAX_LOG) ELSE log1

(***************************************************************************)
(* The poll cycle.                                                         *)
(***************************************************************************)
\* (datetime.now() - last_full_refresh).seconds: the seconds field of the
\* normalised timedelta (days, seconds, microseconds), in 0 .. 86399
TimedeltaSeconds(td) == (td % Sec(DaySeconds)) \div TicksPerSecond

NeedFullRefresh(lfr, t) ==
    \/ lfr = None
    \/ TimedeltaSeconds(t - lfr[1]) > RefreshAfter

\* the except clause of _async_update_data: subclasses of Exception are
\* re-raised as UpdateFailed, anything else (task cancellation) passes
IsException(exc) == exc # "CancelledError"

\* variant: no try/except around the cycle, every exception escapes as it is
Handler_NoCatch(exc) == [kind |-> exc, cause |-> exc]

Handler(exc) ==
    IF IsException(exc) THEN [kind |-> "UpdateFailed", cause |-> exc]
    ELSE [kind |-> exc, cause |-> exc]

NoResult == [kind |-> "none", cause |-> ""]
Returned == [kind |-> "data", cause |-> ""]

\* variant: reads run on another thread and preempt the refresh anywhere
LoopFree_Preemptive == TRUE

\* the refresh coroutine is suspended at an await (or not running)
LoopFree == pc \in {"idle", "fetch_events", "get_setup"}

Snapshot == [devices |-> devices, gateways |-> gateways, events_log |-> events_log]

NoSetup == [gateways |-> <<>>, devices |-> <<>>]
SetupOp(setup, devs) ==
    [kind |-> "setup", ev |-> NoEvent, setup |-> setup, devs |-> devs]
EventOp(ev, devs) ==
    [kind |-> "event", ev |-> ev, setup |-> NoSetup, devs |-> devs]
Push(op) == IF ops = <<>> THEN <<op>> ELSE <<ops[Len(ops)], op>>

(***************************************************************************)
(* The platforms: the entities sensor.py and binary_sensor.py create for   *)
(* the devices of the snapshot, and their unique ids.                      *)
(***************************************************************************)
\* the characters of a str: of the identifiers, names and literals in use
Chars(s) ==
    CASE s = "dev-1" -> <<"d", "e", "v", "-", "1">>
      [] s = "dev-2" -> <<"d", "e", "v", "-", "2">>
      [] s = "Boiler" -> <<"B", "o", "i", "l", "e", "r">>
      [] s = "Pump" -> <<"P", "u", "m", "p">>
      [] s = "Boiler-bis" -> <<"B", "o", "i", "l", "e", "r", "-", "b", "i", "s">>
      [] s = "s1" -> <<"s", "1">>
      [] s = "s2" -> <<"s", "2">>
      [] s = "a" -> <<"a">>
      [] s = "a/b" -> <<"a", "/", "b">>
      [] s = "a:b" -> <<"a", ":", "b">>
      [] s = "a#b" -> <<"a", "#", "b">>
      [] s = "a-b" -> <<"a", "-", "b">>
      [] s = "a_b" -> <<"a", "_", "b">>
      [] s = "atlantic" -> <<"a", "t", "l", "a", "n", "t", "i", "c">>
      [] s = "b" -> <<"b">>
      [] s = "c" -> <<"c">>
      [] s = "b:c" -> <<"b", ":", "c">>
      [] s = "b_c" -> <<"b", "_", "c">>
      [] s = "b/c" -> <<"b", "/", "c">>
      [] s = "b#c" -> <<"b", "#", "c">>
      [] s = "b-c" -> <<"b", "-", "c">>
      [] s = "raw:data" -> <<"r", "a", "w", ":", "d", "a", "t", "a">>
      [] s = "raw_data" -> <<"r", "a", "w", "_", "d", "a", "t", "a">>
      [] s = "core:OnOffState" -> <<"c", "o", "r", "e", ":", "O", "n", "O", "f", "f", "S", "t", "a", "t", "e">>
      [] s = "explorer:events" -> <<"e", "x", "p", "l", "o", "r", "e", "r", ":", "e", "v", "e", "n", "t", "s">>
      [] s = "_" -> <<"_">>
      [] s = "_raw_data" -> <<"_", "r", "a", "w", "_", "d", "a", "t", "a">>
      [] s = "_availability" -> <<"_", "a", "v", "a", "i", "l", "a", "b", "i", "l", "i", "t", "y">>
      [] s = "_binary" -> <<"_", "b", "i", "n", "a", "r", "y">>
      [] s = "atlantic_explorer_events" -> <<"a", "t", "l", "a", "n", "t", "i", "c", "_", "e", "x", "p", "l", "o", "r", "e", "r", "_", "e", "v", "e", "n", "t", "s">>
      [] s = "atlantic_explorer_full_dump" -> <<"a", "t", "l", "a", "n", "t", "i", "c", "_", "e", "x", "p", "l", "o", "r", "e", "r", "_", "f", "u", "l", "l", "_", "d", "u", "m", "p">>

\* str.replace(old, new) for one-character old and new
Replace(str, old, new) ==
    [i \in 1..Len(str) |-> IF str[i] = old THEN new ELSE str[i]]

\* device_url.replace("/", "_").replace(":", "_").replace("#", "_")
SafeUrl(device_url) ==
    Replace(Replace(Replace(Chars(device_url), "/", "_"), ":", "_"), "#", "_")

\* variant: the state name is normalised as the device identifier is
SafeState_LikeUrl(state_name) == SafeUrl(state_name)

\* state_name.replace(":", "_")
SafeState(state_name) == Replace(Chars(state_name), ":", "_")

AtlanticStateSensor(device_url, state_name) ==
    [platform |-> "sensor", kind |-> "state", device_url |-> device_url,
     state_name |-> state_name,
     unique_id |-> SafeUrl(device_url) \o Chars("_") \o SafeState(state_name)]

AtlanticRawDataSensor(device_url) ==
    [platform |-> "sensor", kind |-> "raw_data", device_url |-> device_url,
     unique_id |-> SafeUrl(device_url) \o Chars("_raw_data")]

AtlanticEventsSensor ==
    [platform |-> "sensor", kind |-> "events",
     unique_id |-> Chars("atlantic_explorer_events")]

AtlanticFullDumpSensor ==
    [platform |-> "sensor", kind |-> "full_dump",
     unique_id |-> Chars("atlantic_explorer_full_dump")]

AtlanticAvailabilitySensor(device_url) ==
    [platform |-> "binary_sensor", kind |-> "availability", device_url |-> device_url,
     unique_id |-> SafeUrl(device_url) \o Chars("_availability")]

AtlanticBinaryStateSensor(device_url, state_name) ==
    [platform |-> "binary_sensor", kind |-> "binary_state", device_url |-> device_url,
     state_name |-> state_name,
     unique_id |-> SafeUrl(device_url) \o Chars("_") \o SafeState(state_name)
                      \o Chars("_binary")]

\* the keys of BINARY_STATE_CONFIG
BINARY_STATE_CONFIG ==
    {"core:OnOffState", "core:BoostOnOffState", "core:DHWOnOffState",
     "io:DHWBoostModeState", "core:HeatingOnOffState", "core:CoolingOnOffState",
     "io:ElectricBoosterOperatingModeState", "core:OperatingModeState",
     "core:StatusState"}

\* isinstance(value, bool) or str(value).lower() in on/off/true/false: the
\* state values of the model are integers, which are neither
LooksBoolean(value) == FALSE

\* sensor.async_setup_entry: one sensor per state of every device, one raw
\* data sensor per device, the events sensor and the full dump sensor
sensor_async_setup_entry(devs) ==
    UNION {{AtlanticStateSensor(d, n) : n \in DOMAIN devs[d].states}
              \cup {AtlanticRawDataSensor(d)} : d \in DOMAIN devs}
        \cup {AtlanticEventsSensor, AtlanticFullDumpSensor}

\* binary_sensor.async_setup_entry: one availability sensor per device and
\* one binary sensor per state that is configured or looks boolean
binary_sensor_async_setup_entry(devs) ==
    UNION {{AtlanticBinaryStateSensor(d, n) :
                n \in {m \in DOMAIN devs[d].states :
                          \/ m \in BINARY_STATE_CONFIG
                          \/ LooksBoolean(devs[d].states[m].value)}}
              \cup {AtlanticAvailabilitySensor(d)} : d \in DOMAIN devs}

\* async_forward_entry_setups(entry, PLATFORMS): both platforms are set up
PlatformSetup(devs) ==
    sensor_async_setup_entry(devs) \cup binary_sensor_async_setup_entry(devs)

\* the config flow and the script before they have run
NoForm == [step_id |-> "", errors |-> ""]
NoFlow ==
    [step |-> "none", pc |-> "done", form |-> NoForm, client |-> "none",
     close_calls |-> 0, login |-> "", raised |-> "", result |-> NoResult,
     entry_created |-> FALSE, password_updated |-> FALSE, reloaded |-> FALSE]
NoScript ==
    [pc |-> "not_started", installed |-> TRUE, args |-> None, setup |-> "",
     fails |-> {}, report |-> None, written |-> FALSE, exit |-> None]
ToolsIdle == flow = NoFlow /\ script = NoScript

EntryId == "entry-1"

\* the record async_setup_entry stores in hass.data[DOMAIN]
Record(setup) == [coordinator |-> "coordinator", client |-> "client", setup |-> setup]

\* the entry once async_setup_entry has returned True
EntryLoaded(setup) ==
    /\ entry_pc = "loaded"
    /\ entry_setup = Some(setup)
    /\ coordinator = TRUE
    /\ close_calls = 0
    /\ hass_data = Put(EmptyMap, EntryId, Record(setup))
    /\ platforms = TRUE
    /\ entry_result = [kind |-> "True", cause |-> ""]
    /\ client = "logged_in"
    /\ entities = PlatformSetup(process_setup(EmptyMap, <<>>, setup, 0).devices)
    /\ ToolsIdle

\* AtlanticDataCoordinator.__init__ at time 0
Init ==
    \E setup \in Setups :
        LET r == process_setup(EmptyMap, <<>>, setup, 0)
        IN  /\ devices = r.devices
            /\ gateways = r.gateways
            /\ last_full_refresh = r.last_full_refresh
            /\ events_log = <<>>
            /\ event_count = 0
            /\ pc = "idle"
            /\ pending = <<>>
            /\ now = 0
            /\ result = NoResult
            /\ cycle0 = [devices |-> r.devices, gateways |-> r.gateways,
                         events_log |-> <<>>]
            /\ ops = <<SetupOp(setup, {})>>
            /\ readAt = "none"
            /\ EntryLoaded(setup)

data == <<devices, gateways, events_log, last_full_refresh>>

Tick(instants) ==
    /\ \E t \in instants : t > now /\ now' = t
    /\ UNCHANGED <<entryVars, toolVars, data, event_count, pc, pending, result, cycle0, ops, readAt>>

\* the host's timer calls _async_update_data, which awaits fetch_events()
PollStart ==
    /\ pc = "idle"
    /\ pc' = "fetch_events"
    /\ result' = NoResult
    /\ cycle0' = Snapshot
    /\ UNCHANGED <<entryVars, toolVars, data, event_count, pending, now, ops, readAt>>

FetchEventsReturn(batches, maxCount) ==
    /\ pc = "fetch_events"
    /\ \E batch \in batches :
        /\ event_count + Len(batch) <= maxCount
        /\ pending' = batch
    /\ pc' = "process"
    /\ UNCHANGED <<entryVars, toolVars, data, event_count, now, result, cycle0, ops, readAt>>

FetchEventsRaise(errors) ==
    /\ pc = "fetch_events"
    /\ \E exc \in errors : result' = Handler(exc)
    /\ pc' = "idle"
    /\ UNCHANGED <<entryVars, toolVars, data, event_count, pending, now, cycle0, ops, readAt>>

\* the task is cancelled while it is suspended at one of the awaits
Cancel ==
    /\ pc \in {"fetch_events", "get_setup"}
    /\ result' = Handler("CancelledError")
    /\ pc' = "idle"
    /\ UNCHANGED <<entryVars, toolVars, data, event_count, pending, now, cycle0, ops, readAt>>

\* variant: the entry is appended after the dispatch, so not when it raises
ProcessEvent_LogsAfterDispatch ==
    /\ pc = "process"
    /\ pending # <<>>
    /\ LET event == Head(pending)
           n == event_count + 1
           r == Dispatch(devices, event, now)
       IN  /\ event_count' = n
           /\ events_log' = IF r.raised THEN events_log
                            ELSE AppendCapped(events_log, EventData(event, n, now))
           /\ devices' = r.devices
           /\ ops' = Push(EventOp(event, DOMAIN devices))
           /\ IF r.raised
              THEN /\ pc' = "idle"
                   /\ pending' = <<>>
                   /\ result' = Handler("AttributeError")
              ELSE /\ pending' = Tail(pending)
                   /\ UNCHANGED <<pc, result>>
    /\ UNCHANGED <<entryVars, toolVars, gateways, last_full_refresh, now, cycle0, readAt>>

\* one iteration of "for event in events: self._process_event(event)"
ProcessEvent ==
    /\ pc = "process"
    /\ pending # <<>>
    /\ LET event == Head(pending)
           n == event_count + 1
           r == Dispatch(devices, event, now)
       IN  /\ event_count' = n
           /\ events_log' = AppendCapped(events_log, EventData(event, n, now))
           /\ devices' = r.devices
           /\ ops' = Push(EventOp(event, DOMAIN devices))
           /\ IF r.raised
              THEN /\ pc' = "idle"
                   /\ pending' = <<>>
                   /\ result' = Handler("AttributeError")
              ELSE /\ pending' = Tail(pending)
                   /\ UNCHANGED <<pc, result>>
    /\ UNCHANGED <<entryVars, toolVars, gateways, last_full_refresh, now, cycle0, readAt>>

\* variant: the refresh condition is tested before the loop over the events
StartFullRefresh_BeforeEvents ==
    /\ pc = "process"
    /\ NeedFullRefresh(last_full_refresh, now)
    /\ pc' = "get_setup"
    /\ UNCHANGED <<entryVars, toolVars, data, event_count, pending, now, result, cycle0, ops, readAt>>

\* the batch is done and a full refresh is due: await get_setup()
StartFullRefresh ==
    /\ pc = "process"
    /\ pending = <<>>
    /\ NeedFullRefresh(last_full_refresh, now)
    /\ pc' = "get_setup"
    /\ UNCHANGED <<entryVars, toolVars, data, event_count, pending, now, result, cycle0, ops, readAt>>

\* the batch is done and no full refresh is due: return self._data
ReturnData ==
    /\ pc = "process"
    /\ pending = <<>>
    /\ ~NeedFullRefresh(last_full_refresh, now)
    /\ pc' = "idle"
    /\ result' = Returned
    /\ UNCHANGED <<entryVars, toolVars, data, event_count, pending, now, cycle0, ops, readAt>>

\* get_setup() returns; _process_setup(new_setup); return self._data
GetSetupReturn(setups) ==
    /\ pc = "get_setup"
    /\ \E setup \in setups :
        LET r == process_setup(devices, gateways, setup, now)
        IN  /\ devices' = r.devices
            /\ gateways' = r.gateways
            /\ last_full_refresh' = r.last_full_refresh
            /\ ops' = Push(SetupOp(setup, DOMAIN devices))
    /\ pc' = "idle"
    /\ result' = Returned
    /\ UNCHANGED <<entryVars, toolVars, events_log, event_count, pending, now, cycle0, readAt>>

GetSetupRaise(errors) ==
    /\ pc = "get_setup"
    /\ \E exc \in errors : result' = Handler(exc)
    /\ pc' = "idle"
    /\ UNCHANGED <<entryVars, toolVars, data, event_count, pending, now, cycle0, ops, readAt>>

\* get_device_data, get_all_devices, get_events_log, get_full_data_dump:
\* synchronous reads, run by the loop whenever it is free
Read ==
    /\ LoopFree
    /\ readAt' = pc
    /\ UNCHANGED <<entryVars, toolVars, data, event_count, pc, pending, now, result, cycle0, ops>>

(***************************************************************************)
(* The entry life cycle: async_setup_entry and async_unload_entry.         *)
(***************************************************************************)
\* pyoverkiz exception classes: the class an exception class derives from
BaseOf(exc) ==
    IF exc = "CozyTouchBadCredentialsException" THEN "BadCredentialsException"
    ELSE "Exception"

\* isinstance(exc, cls), as an except clause tests it
IsInstance(exc, cls) == exc = cls \/ BaseOf(exc) = cls

LoginErrors ==
    {"BadCredentialsException", "CozyTouchBadCredentialsException",
     "TooManyRequestsException", "MaintenanceException",
     "NotAuthenticatedException", "ClientError"}

SetupErrors == {"TooManyRequestsException", "ClientError", "AttributeError"}

AuthFailed(exc) == [kind |-> "ConfigEntryAuthFailed", cause |-> exc]
NotReady(exc) == [kind |-> "ConfigEntryNotReady", cause |-> exc]
Escapes(exc) == [kind |-> exc, cause |-> exc]

\* variant: the catch-all clause comes first, every failure defers the setup
LoginHandler_CatchAllFirst(exc) ==
    IF IsException(exc) THEN NotReady(exc) ELSE Escapes(exc)

\* the except clauses around await client.login(), in their order
LoginHandler(exc) ==
    IF IsInstance(exc, "BadCredentialsException") THEN AuthFailed(exc)
    ELSE IF IsInstance(exc, "TooManyRequestsException") THEN NotReady(exc)
    ELSE IF IsInstance(exc, "MaintenanceException") THEN NotReady(exc)
    ELSE IF IsException(exc) THEN NotReady(exc)
    ELSE Escapes(exc)

\* the except clause around get_setup() and _log_full_setup_data()
SetupHandler(exc) ==
    IF IsException(exc) THEN NotReady(exc) ELSE Escapes(exc)

\* async_config_entry_first_refresh: a failed first refresh defers the setup
FirstRefreshHandler(res) ==
    IF res.kind = "UpdateFailed" THEN NotReady("UpdateFailed") ELSE Escapes(res.kind)

coordVars == <<devices, gateways, events_log, last_full_refresh, event_count, pc,
               pending, result, cycle0, ops, readAt>>

\* no entry has been set up: no coordinator, an empty registry
InitEntry ==
    /\ devices = EmptyMap
    /\ gateways = <<>>
    /\ events_log = <<>>
    /\ last_full_refresh = None
    /\ event_count = 0
    /\ pc = "idle"
    /\ pending = <<>>
    /\ now = 0
    /\ result = NoResult
    /\ cycle0 = [devices |-> EmptyMap, gateways |-> <<>>, events_log |-> <<>>]
    /\ ops = <<>>
    /\ readAt = "none"
    /\ entry_pc = "not_loaded"
    /\ entry_setup = None
    /\ coordinator = FALSE
    /\ close_calls = 0
    /\ hass_data = EmptyMap
    /\ platforms = FALSE
    /\ entry_result = NoResult
    /\ client = "none"
    /\ entities = {}
    /\ ToolsIdle

\* async_setup_entry with a server SUPPORTED_SERVERS does not know
SetupEntry_UnknownServer ==
    /\ entry_pc = "not_loaded"
    /\ entry_result' = [kind |-> "False", cause |-> ""]
    /\ client' = "none"
    /\ close_calls' = 0
    /\ UNCHANGED <<coordVars, toolVars, now, entities, entry_pc, entry_setup,
                   coordinator, hass_data, platforms>>

\* async_setup_entry creates the client and awaits client.login()
SetupEntry_Start ==
    /\ entry_pc = "not_loaded"
    /\ entry_pc' = "login"
    /\ entry_setup' = None
    /\ coordinator' = FALSE
    /\ close_calls' = 0
    /\ entry_result' = NoResult
    /\ client' = "created"
    /\ UNCHANGED <<coordVars, toolVars, now, entities, hass_data, platforms>>

\* login() returns; await client.get_setup()
SetupEntry_LoginReturn ==
    /\ entry_pc = "login"
    /\ entry_pc' = "get_setup"
    /\ client' = "logged_in"
    /\ UNCHANGED <<coordVars, toolVars, now, entities, entry_setup, coordinator, close_calls, hass_data,
                   platforms, entry_result>>

SetupEntry_LoginRaise(errors) ==
    /\ entry_pc = "login"
    /\ \E exc \in errors : entry_result' = LoginHandler(exc)
    /\ entry_pc' = "not_loaded"
    /\ UNCHANGED <<coordVars, toolVars, now, client, entities, entry_setup, coordinator, close_calls, hass_data,
                   platforms>>

\* get_setup() returns; await _log_full_setup_data(hass, setup, client)
SetupEntry_GetSetupReturn(setups) ==
    /\ entry_pc = "get_setup"
    /\ \E setup \in setups : entry_setup' = Some(setup)
    /\ entry_pc' = "log_setup"
    /\ UNCHANGED <<coordVars, toolVars, now, client, entities, coordinator, close_calls, hass_data, platforms,
                   entry_result>>

\* get_setup() raises, or _log_full_setup_data raises reading the Setup
SetupEntry_SetupRaise(errors) ==
    /\ entry_pc \in {"get_setup", "log_setup"}
    /\ \E exc \in errors : entry_result' = SetupHandler(exc)
    /\ entry_pc' = "not_loaded"
    /\ UNCHANGED <<coordVars, toolVars, now, client, entities, entry_setup, coordinator, close_calls, hass_data,
                   platforms>>

\* the setup task is cancelled while it is suspended at one of its awaits
SetupEntry_Cancel ==
    /\ entry_pc \in {"login", "get_setup", "log_setup", "forward"}
    /\ entry_result' = IF entry_pc = "login" THEN LoginHandler("CancelledError")
                       ELSE IF entry_pc = "forward" THEN Escapes("CancelledError")
                       ELSE SetupHandler("CancelledError")
    /\ entry_pc' = "not_loaded"
    /\ UNCHANGED <<coordVars, toolVars, now, client, entities, entry_setup, coordinator, close_calls, hass_data,
                   platforms>>

\* the logging returns; AtlanticDataCoordinator(hass, client, setup);
\* await coordinator.async_config_entry_first_refresh()
SetupEntry_CreateCoordinator ==
    /\ entry_pc = "log_setup"
    /\ LET r == process_setup(EmptyMap, <<>>, entry_setup[1], now)
       IN  /\ devices' = r.devices
           /\ gateways' = r.gateways
           /\ last_full_refresh' = r.last_full_refresh
           /\ cycle0' = [devices |-> r.devices, gateways |-> r.gateways,
                         events_log |-> <<>>]
    /\ events_log' = <<>>
    /\ event_count' = 0
    /\ pc' = "idle"
    /\ pending' = <<>>
    /\ result' = NoResult
    /\ ops' = <<SetupOp(entry_setup[1], {})>>
    /\ readAt' = "none"
    /\ coordinator' = TRUE
    /\ entry_pc' = "first_refresh"
    /\ UNCHANGED <<toolVars, now, entry_setup, close_calls, hass_data, platforms,
                   entry_result, client, entities>>

\* the refresh cycles the host runs: the first refresh of the setup, and
\* the timer of the loaded entry
EntryPollStart ==
    /\ \/ entry_pc = "first_refresh" /\ result = NoResult
       \/ entry_pc = "loaded"
    /\ PollStart

\* variant: the platforms are forwarded before the record is stored
SetupEntry_FirstRefreshDone_ForwardsFirst ==
    /\ entry_pc = "first_refresh"
    /\ pc = "idle"
    /\ result # NoResult
    /\ IF result.kind = "data"
       THEN /\ UNCHANGED hass_data
            /\ entry_pc' = "forward"
            /\ UNCHANGED entry_result
       ELSE /\ entry_result' = FirstRefreshHandler(result)
            /\ entry_pc' = "not_loaded"
            /\ UNCHANGED hass_data
    /\ UNCHANGED <<coordVars, toolVars, now, client, entities, entry_setup, coordinator, close_calls, platforms>>

\* the first refresh is over: store the record and await
\* async_forward_entry_setups, or leave with the exception
SetupEntry_FirstRefreshDone ==
    /\ entry_pc = "first_refresh"
    /\ pc = "idle"
    /\ result # NoResult
    /\ IF result.kind = "data"
       THEN /\ hass_data' = Put(hass_data, EntryId, Record(entry_setup[1]))
            /\ entry_pc' = "forward"
            /\ UNCHANGED entry_result
       ELSE /\ entry_result' = FirstRefreshHandler(result)
            /\ entry_pc' = "not_loaded"
            /\ UNCHANGED hass_data
    /\ UNCHANGED <<coordVars, toolVars, now, client, entities, entry_setup, coordinator, close_calls, platforms>>

\* async_forward_entry_setups sets up the platforms, which read the record
\* hass.data[DOMAIN][entry.entry_id] and create the entities; return True
SetupEntry_ForwardReturn ==
    /\ entry_pc = "forward"
    /\ IF EntryId \in DOMAIN hass_data
       THEN /\ platforms' = TRUE
            /\ entities' = PlatformSetup(devices)
            /\ entry_result' = [kind |-> "True", cause |-> ""]
            /\ entry_pc' = "loaded"
       ELSE /\ entry_result' = Escapes("KeyError")
            /\ entry_pc' = "not_loaded"
            /\ UNCHANGED <<platforms, entities>>
    /\ UNCHANGED <<coordVars, toolVars, now, client, entry_setup, coordinator,
                   close_calls, hass_data>>

\* async_forward_entry_setups raises: the exception leaves async_setup_entry
SetupEntry_ForwardRaise(errors) ==
    /\ entry_pc = "forward"
    /\ \E exc \in errors : entry_result' = Escapes(exc)
    /\ entry_pc' = "not_loaded"
    /\ UNCHANGED <<coordVars, toolVars, now, client, entities, entry_setup, coordinator, close_calls, hass_data,
                   platforms>>

\* async_unload_entry awaits async_unload_platforms
UnloadEntry_Start ==
    /\ entry_pc = "loaded"
    /\ entry_pc' = "unload_platforms"
    /\ entry_result' = NoResult
    /\ UNCHANGED <<coordVars, toolVars, now, client, entities, entry_setup, coordinator, close_calls, hass_data,
                   platforms>>

\* async_unload_platforms returns unload_ok: pop the record and await
\* client.close(), or return False
UnloadEntry_PlatformsReturn ==
    /\ entry_pc = "unload_platforms"
    /\ \E unload_ok \in BOOLEAN :
          IF unload_ok
          THEN /\ platforms' = FALSE
               /\ entities' = {}
               /\ hass_data' = [x \in DOMAIN hass_data \ {EntryId} |-> hass_data[x]]
               /\ close_calls' = close_calls + 1
               /\ entry_pc' = "close"
               /\ UNCHANGED entry_result
          ELSE /\ entry_result' = [kind |-> "False", cause |-> ""]
               /\ entry_pc' = "loaded"
               /\ UNCHANGED <<platforms, entities, hass_data, close_calls>>
    /\ UNCHANGED <<coordVars, toolVars, now, client, entry_setup, coordinator>>

\* async_unload_platforms raises: the exception leaves async_unload_entry
UnloadEntry_PlatformsRaise(errors) ==
    /\ entry_pc = "unload_platforms"
    /\ \E exc \in errors : entry_result' = Escapes(exc)
    /\ entry_pc' = "failed_unload"
    /\ UNCHANGED <<coordVars, toolVars, now, client, entities, entry_setup, coordinator, close_calls, hass_data,
                   platforms>>

\* client.close() returns; return unload_ok
UnloadEntry_CloseReturn ==
    /\ entry_pc = "close"
    /\ entry_result' = [kind |-> "True", cause |-> ""]
    /\ entry_pc' = "not_loaded"
    /\ UNCHANGED <<coordVars, toolVars, now, client, entities, entry_setup, coordinator, close_calls, hass_data,
                   platforms>>

\* client.close() raises: the exception leaves async_unload_entry
UnloadEntry_CloseRaise(errors) ==
    /\ entry_pc = "close"
    /\ \E exc \in errors : entry_result' = Escapes(exc)
    /\ entry_pc' = "failed_unload"
    /\ UNCHANGED <<coordVars, toolVars, now, client, entities, entry_setup, coordinator, close_calls, hass_data,
                   platforms>>

Batches == SeqsUpTo(Events, MaxEvents)

MainSetups == {SetupA, SetupB}

Next ==
    \/ Tick(Instants)
    \/ PollStart
    \/ FetchEventsReturn(Batches, MaxEvents)
    \/ FetchEventsRaise({"ClientError"})
    \/ Cancel
    \/ ProcessEvent
    \/ StartFullRefresh
    \/ ReturnData
    \/ GetSetupReturn(MainSetups)
    \/ GetSetupRaise({"ClientError"})

Spec == Init /\ [][Next]_vars

(***************************************************************************)
(* SpecSync: the clock, the full refresh and the failure kinds.  Few       *)
(* events, every error kind, and instants on both sides of the 300 second  *)
(* threshold and of a whole day.                                           *)
(***************************************************************************)
ClockInstants ==
    {0, Sec(300), Sec(300) + 1, Sec(301), Sec(DaySeconds), Sec(DaySeconds + 301)}

SyncBatches == {<<>>, <<OtherEvent>>, <<Malformed>>}

NextSync ==
    \/ Tick(ClockInstants)
    \/ PollStart
    \/ FetchEventsReturn(SyncBatches, MaxEvents)
    \/ FetchEventsRaise(ApiErrors)
    \/ Cancel
    \/ ProcessEvent
    \/ StartFullRefresh
    \/ ReturnData
    \/ GetSetupReturn({SetupA})
    \/ GetSetupRaise(ApiErrors)

SpecSync == Init /\ [][NextSync]_vars

(***************************************************************************)
(* SpecRead: the poll cycle together with the entity reads.                *)
(***************************************************************************)
ReadBatches == {<<>>, <<StateChanged(<<Item("dev-1", <<St("s1", 46)>>)>>)>>}

NextRead ==
    \/ Tick(Instants)
    \/ PollStart
    \/ FetchEventsReturn(ReadBatches, MaxEvents)
    \/ FetchEventsRaise({"ClientError"})
    \/ Cancel
    \/ ProcessEvent
    \/ StartFullRefresh
    \/ ReturnData
    \/ GetSetupReturn({SetupA})
    \/ GetSetupRaise({"ClientError"})
    \/ Read

SpecRead == Init /\ [][NextRead]_vars

(***************************************************************************)
(* SpecLog: a long run that fills the event log.  The first MAX_LOG - 1    *)
(* events arrive in batches of 37 in the first instant; from then on       *)
(* batches, failures and the clock are free.                               *)
(***************************************************************************)
LogFilling == event_count < MAX_LOG - 1

FillBatch == [i \in 1..37 |-> OtherEvent]

LogBatches ==
    IF LogFilling THEN {FillBatch}
    ELSE {<<>>, <<OtherEvent>>, <<Malformed>>, <<OtherEvent, OtherEvent>>,
          <<OtherEvent, Malformed>>}

LogInstants == IF LogFilling THEN {} ELSE {Sec(301)}

LogErrors == IF LogFilling THEN {} ELSE {"ClientError"}

NextLog ==
    \/ Tick(LogInstants)
    \/ PollStart
    \/ FetchEventsReturn(LogBatches, MaxLogEvents)
    \/ FetchEventsRaise(LogErrors)
    \/ Cancel
    \/ ProcessEvent
    \/ StartFullRefresh
    \/ ReturnData
    \/ GetSetupReturn({SetupA})
    \/ GetSetupRaise(LogErrors)

SpecLog == Init /\ [][NextLog]_vars

(***************************************************************************)
(* SpecEvents: the event processor on state-changed events that repeat a   *)
(* value, add a state name, list no state, name an unknown device or       *)
(* several devices, or raise half way; the full refresh draws from Setups  *)
(* with other devices and with a repeated identifier.                      *)
(***************************************************************************)
EventKinds ==
    { StateChanged(<<Item("dev-1", <<St("s1", 45)>>)>>),
      StateChanged(<<Item("dev-1", <<St("s1", 46)>>)>>),
      StateChanged(<<Item("dev-1", <<St("s2", 7)>>)>>),
      StateChanged(<<Item("dev-1", <<>>)>>),
      StateChanged(<<>>),
      StateChanged(<<Item("dev-9", <<St("s1", 46)>>),
                     Item("dev-1", <<St("s1", 46), St("s1", 47)>>)>>),
      StateChanged(<<Item("dev-1", <<St("s1", 46)>>), Item(Missing, <<>>)>>) }

EventBatches == SeqsUpTo(EventKinds, MaxEvents)

EventSetups == {SetupA, SetupC, SetupD}

NextEvents ==
    \/ Tick(Instants)
    \/ PollStart
    \/ FetchEventsReturn(EventBatches, MaxEvents)
    \/ FetchEventsRaise({"ClientError"})
    \/ Cancel
    \/ ProcessEvent
    \/ StartFullRefresh
    \/ ReturnData
    \/ GetSetupReturn(EventSetups)
    \/ GetSetupRaise({"ClientError"})

SpecEvents == Init /\ [][NextEvents]_vars

(***************************************************************************)
(* SpecAvail: the event processor on availability events for known,        *)
(* unknown and absent identifiers and on the events that are only logged.  *)
(***************************************************************************)
AvailKinds ==
    { Unavailable("dev-1"),
      Available("dev-1"),
      Unavailable("dev-9"),
      Available(""),
      Created("dev-9"),
      Updated("dev-1"),
      OtherEvent }

AvailBatches == SeqsUpTo(AvailKinds, MaxEvents)

NextAvail ==
    \/ Tick(Instants)
    \/ PollStart
    \/ FetchEventsReturn(AvailBatches, MaxEvents)
    \/ FetchEventsRaise({"ClientError"})
    \/ Cancel
    \/ ProcessEvent
    \/ StartFullRefresh
    \/ ReturnData
    \/ GetSetupReturn(MainSetups)
    \/ GetSetupRaise({"ClientError"})

SpecAvail == Init /\ [][NextAvail]_vars

(***************************************************************************)
(* SpecEntry: the life of a config entry, from async_setup_entry over the  *)
(* first refresh and the timer's refresh cycles to async_unload_entry, and *)
(* again.                                                                  *)
(***************************************************************************)
EntryBatches == {<<>>, <<OtherEvent>>}

NextEntry ==
    \/ SetupEntry_UnknownServer
    \/ SetupEntry_Start
    \/ SetupEntry_LoginReturn
    \/ SetupEntry_LoginRaise(LoginErrors)
    \/ SetupEntry_GetSetupReturn({SetupA, SetupB})
    \/ SetupEntry_SetupRaise(SetupErrors)
    \/ SetupEntry_Cancel
    \/ SetupEntry_CreateCoordinator
    \/ EntryPollStart
    \/ SetupEntry_FirstRefreshDone
    \/ SetupEntry_ForwardReturn
    \/ SetupEntry_ForwardRaise({"ImportError"})
    \/ UnloadEntry_Start
    \/ UnloadEntry_PlatformsReturn
    \/ UnloadEntry_PlatformsRaise({"RuntimeError"})
    \/ UnloadEntry_CloseReturn
    \/ UnloadEntry_CloseRaise({"ClientError"})
    \/ Tick(Instants)
    \/ FetchEventsReturn(EntryBatches, MaxEvents)
    \/ FetchEventsRaise({"ClientError"})
    \/ Cancel
    \/ ProcessEvent
    \/ StartFullRefresh
    \/ ReturnData
    \/ GetSetupReturn({SetupA})
    \/ GetSetupRaise({"ClientError"})

SpecEntry == InitEntry /\ [][NextEntry]_vars

(***************************************************************************)
(* scripts/explore_api.py: the import guard, main() and explore_api().     *)
(* script.fails collects the steps whose call raised in this run, exit is  *)
(* the status of the process, written whether main() opened the report     *)
(* file for writing.                                                       *)
(***************************************************************************)
\* the command lines: which options are given, and the server they select
Argvs ==
    [email : BOOLEAN, password : BOOLEAN, list_servers : BOOLEAN, help : BOOLEAN,
     server : {"atlantic_cozytouch", "nowhere"}]

\* SUPPORTED_SERVERS.get(server)
KnownServer(server) == server = "atlantic_cozytouch"

\* variant: no option is required, --list-servers works on its own
ParseArgs_NothingRequired(args) ==
    IF args.help THEN "help"
    ELSE IF args.list_servers THEN "list_servers"
    ELSE "explore"

\* parser.parse_args() and the test of args.list_servers: -h prints the
\* help and exits 0, a missing required option exits 2
ParseArgs(args) ==
    IF args.help THEN "help"
    ELSE IF ~args.email \/ ~args.password THEN "usage"
    ELSE IF args.list_servers THEN "list_servers"
    ELSE "explore"

\* the report explore_api starts with, and the ones it returns early
NewReport == [kind |-> "report", errors |-> <<>>]
EmptyReport == [kind |-> "empty", errors |-> <<>>]
ErrorReport(text) == [kind |-> "error", errors |-> <<text>>]

\* report["errors"].append({"context": context, ...})
WithError(report, context) == [report EXCEPT !.errors = Append(@, context)]

\* the except clauses around await client.login() in explore_api
ScriptLoginHandler(exc) ==
    IF IsInstance(exc, "BadCredentialsException") THEN ErrorReport("Invalid credentials")
    ELSE ErrorReport(exc)

scriptRest == <<coordVars, now, entryVars, flow>>

\* an exception leaves explore_api or main: traceback, status 1
ScriptEscapes(step) ==
    script' = [script EXCEPT !.pc = "exited", !.fails = @ \cup {step},
                             !.exit = Some(1)]

\* the module's imports: without pyoverkiz the guard calls sys.exit(1)
Script_Import ==
    /\ script.pc = "not_started"
    /\ \E installed \in BOOLEAN :
          script' = IF installed
                    THEN [script EXCEPT !.pc = "main", !.installed = TRUE]
                    ELSE [script EXCEPT !.pc = "exited", !.installed = FALSE,
                                        !.exit = Some(1)]
    /\ UNCHANGED scriptRest

\* main() up to asyncio.run(explore_api(...)), and explore_api up to its
\* first await: the unknown server returns {} before a client exists
Script_Main ==
    /\ script.pc = "main"
    /\ \E args \in Argvs :
          LET how == ParseArgs(args)
              s0 == [script EXCEPT !.args = Some(args)]
          IN  script' =
                 IF how = "usage" THEN [s0 EXCEPT !.pc = "exited", !.exit = Some(2)]
                 ELSE IF how \in {"help", "list_servers"}
                      THEN [s0 EXCEPT !.pc = "exited", !.exit = Some(0)]
                 ELSE IF ~KnownServer(args.server)
                      THEN [s0 EXCEPT !.pc = "write", !.report = Some(EmptyReport)]
                 ELSE [s0 EXCEPT !.pc = "login", !.report = Some(NewReport)]
    /\ UNCHANGED scriptRest

\* await client.login() returns
Script_LoginReturn ==
    /\ script.pc = "login"
    /\ script' = [script EXCEPT !.pc = "get_setup"]
    /\ UNCHANGED scriptRest

\* await client.login() raises: explore_api returns the error report
Script_LoginRaise(errors) ==
    /\ script.pc = "login"
    /\ \E exc \in errors :
          script' = [script EXCEPT !.pc = "write", !.fails = @ \cup {"login"},
                                   !.report = Some(ScriptLoginHandler(exc))]
    /\ UNCHANGED scriptRest

\* await client.get_setup() returns a Setup, whose gateways and devices the
\* script then reads outside any try
Script_GetSetupReturn ==
    /\ script.pc = "get_setup"
    /\ \E setup \in {"well_formed", "bad_device", "bad_place"} :
          script' = [script EXCEPT !.pc = "process", !.setup = setup]
    /\ UNCHANGED scriptRest

\* await client.get_setup() raises: the error is recorded, the report returned
Script_GetSetupRaise ==
    /\ script.pc = "get_setup"
    /\ script' = [script EXCEPT !.pc = "write", !.fails = @ \cup {"get_setup"},
                                !.report = Some(WithError(@[1], "setup"))]
    /\ UNCHANGED scriptRest

\* the loops over setup.gateways and setup.devices
Script_Process ==
    /\ script.pc = "process"
    /\ IF script.setup = "bad_device" THEN ScriptEscapes("process")
       ELSE script' = [script EXCEPT !.pc = "scenarios"]
    /\ UNCHANGED scriptRest

\* await client.get_scenarios(), in its try
Script_Scenarios ==
    /\ script.pc = "scenarios"
    /\ \E ok \in BOOLEAN :
          script' = IF ok THEN [script EXCEPT !.pc = "action_groups"]
                    ELSE [script EXCEPT !.pc = "action_groups",
                                        !.fails = @ \cup {"scenarios"},
                                        !.report = Some(WithError(@[1], "scenarios"))]
    /\ UNCHANGED scriptRest

\* await client.get_action_groups(), in its try; then the places, outside
\* any try
Script_ActionGroups ==
    /\ script.pc = "action_groups"
    /\ \E ok \in BOOLEAN :
          LET s1 == IF ok THEN script
                    ELSE [script EXCEPT !.fails = @ \cup {"action_groups"},
                                        !.report = Some(WithError(@[1], "action_groups"))]
          IN  script' = IF script.setup = "bad_place"
                        THEN [s1 EXCEPT !.pc = "exited", !.fails = @ \cup {"places"},
                                        !.exit = Some(1)]
                        ELSE [s1 EXCEPT !.pc = "events"]
    /\ UNCHANGED scriptRest

\* await client.fetch_events(), in its try; then await client.close()
Script_Events ==
    /\ script.pc = "events"
    /\ \E ok \in BOOLEAN :
          script' = IF ok THEN [script EXCEPT !.pc = "close"]
                    ELSE [script EXCEPT !.pc = "close", !.fails = @ \cup {"events"},
                                        !.report = Some(WithError(@[1], "events"))]
    /\ UNCHANGED scriptRest

\* await client.close() returns: explore_api returns the report
Script_CloseReturn ==
    /\ script.pc = "close"
    /\ script' = [script EXCEPT !.pc = "write"]
    /\ UNCHANGED scriptRest

\* await client.close() raises, outside any try
Script_CloseRaise ==
    /\ script.pc = "close"
    /\ ScriptEscapes("close")
    /\ UNCHANGED scriptRest

\* main() opens the output file and dumps the report; open() may raise
Script_Write ==
    /\ script.pc = "write"
    /\ \E ok \in BOOLEAN :
          script' = IF ok
                    THEN [script EXCEPT !.pc = "exited", !.written = TRUE,
                                        !.exit = Some(0)]
                    ELSE [script EXCEPT !.pc = "exited", !.written = TRUE,
                                        !.fails = @ \cup {"write"}, !.exit = Some(1)]
    /\ UNCHANGED scriptRest

NextScript ==
    \/ Script_Import
    \/ Script_Main
    \/ Script_LoginReturn
    \/ Script_LoginRaise(LoginErrors)
    \/ Script_GetSetupReturn
    \/ Script_GetSetupRaise
    \/ Script_Process
    \/ Script_Scenarios
    \/ Script_ActionGroups
    \/ Script_Events
    \/ Script_CloseReturn
    \/ Script_CloseRaise
    \/ Script_Write

SpecScript == InitEntry /\ [][NextScript]_vars

(***************************************************************************)
(* config_flow.py: async_step_user, _validate_credentials and              *)
(* async_step_reauth_confirm.  flow.form is the form the user sees,        *)
(* flow.login how login() ended in this step, flow.raised the exception in *)
(* flight when _validate_credentials is left, flow.result what the step    *)
(* returned.                                                               *)
(***************************************************************************)
ShowForm(step_id, errors) == [kind |-> "form", cause |-> errors]
CreateEntry == [kind |-> "create_entry", cause |-> ""]
Abort(reason) == [kind |-> "abort", cause |-> reason]

\* the except clauses of async_step_user, in their order: errors["base"],
\* or "" when no clause catches
UserErrors(exc) ==
    IF IsInstance(exc, "BadCredentialsException") THEN "invalid_auth"
    ELSE IF IsInstance(exc, "TooManyRequestsException") THEN "too_many_requests"
    ELSE IF IsInstance(exc, "MaintenanceException") THEN "server_maintenance"
    ELSE IF IsException(exc) THEN "unknown"
    ELSE ""

\* the except clauses of async_step_reauth_confirm
ReauthErrors(exc) ==
    IF IsInstance(exc, "BadCredentialsException") THEN "invalid_auth"
    ELSE IF IsException(exc) THEN "unknown"
    ELSE ""

StepErrors(step, exc) == IF step = "user" THEN UserErrors(exc) ELSE ReauthErrors(exc)

\* the step ends with exc raised by _validate_credentials: the form is
\* shown again with the error, or the exception leaves the step
FlowFailed(f, exc) ==
    IF StepErrors(f.step, exc) # ""
    THEN [f EXCEPT !.pc = "done", !.raised = exc,
                   !.form = [step_id |-> f.step, errors |-> StepErrors(f.step, exc)],
                   !.result = ShowForm(f.step, StepErrors(f.step, exc))]
    ELSE [f EXCEPT !.pc = "done", !.raised = exc, !.result = Escapes(exc)]

\* a step begins: the per-step fields are those of a fresh call
FlowStep(step) ==
    [flow EXCEPT !.step = step, !.client = "none", !.close_calls = 0, !.login = "",
                 !.raised = "", !.result = NoResult]

FlowAlive == flow.pc = "done" /\ flow.result.kind \in {"none", "form"}

flowRest == <<coordVars, now, entryVars, script>>

\* the inputs of a step: nothing submitted yet, no entry for the reauth,
\* a server SUPPORTED_SERVERS does not know, or one it knows
FlowInputs == {"no_input", "no_entry", "unknown_server", "known_server"}

\* async_step_user / async_step_reauth_confirm up to await client.login()
Flow_Start(steps, inputs) ==
    /\ FlowAlive
    /\ \E step \in steps, input \in inputs :
          /\ input = "no_entry" => step = "reauth_confirm"
          /\ flow' =
                IF input \in {"no_input", "no_entry"}
                THEN [FlowStep(step) EXCEPT !.form = [step_id |-> step, errors |-> ""],
                                            !.result = ShowForm(step, "")]
                ELSE IF input = "unknown_server"
                THEN FlowFailed(FlowStep(step), "ValueError")
                ELSE [FlowStep(step) EXCEPT !.pc = "login", !.client = "created"]
    /\ UNCHANGED flowRest

\* await client.login() returns; finally: await client.close()
Flow_LoginReturn ==
    /\ flow.pc = "login"
    /\ flow' = [flow EXCEPT !.pc = "close", !.login = "ok",
                            !.close_calls = @ + 1]
    /\ UNCHANGED flowRest

\* await client.login() raises or is cancelled; finally: await client.close()
Flow_LoginRaise(errors) ==
    /\ flow.pc = "login"
    /\ \E exc \in errors :
          flow' = [flow EXCEPT !.pc = "close", !.login = exc, !.raised = exc,
                              !.close_calls = @ + 1]
    /\ UNCHANGED flowRest

\* client.close() returns: the exception of login(), if any, goes on to the
\* except clauses; else the user step sets the unique id, aborts if it is
\* configured and creates the entry, the reauth step updates the entry and
\* awaits its reload
Flow_CloseReturn ==
    /\ flow.pc = "close"
    /\ \E configured \in BOOLEAN :
          flow' =
             IF flow.raised # "" THEN FlowFailed(flow, flow.raised)
             ELSE IF flow.step = "user"
                  THEN IF configured
                       THEN [flow EXCEPT !.pc = "done",
                                         !.result = Abort("already_configured")]
                       ELSE [flow EXCEPT !.pc = "done", !.entry_created = TRUE,
                                         !.result = CreateEntry]
                  ELSE [flow EXCEPT !.pc = "reload", !.password_updated = TRUE]
    /\ UNCHANGED flowRest

\* client.close() raises in the finally clause: its exception replaces the
\* one of login()
Flow_CloseRaise(errors) ==
    /\ flow.pc = "close"
    /\ \E exc \in errors : flow' = FlowFailed(flow, exc)
    /\ UNCHANGED flowRest

\* await async_reload(entry.entry_id) returns: abort "reauth_successful"
Flow_ReloadReturn ==
    /\ flow.pc = "reload"
    /\ flow' = [flow EXCEPT !.pc = "done", !.reloaded = TRUE,
                            !.result = Abort("reauth_successful")]
    /\ UNCHANGED flowRest

\* await async_reload(entry.entry_id) raises: the exception leaves the step
Flow_ReloadRaise(errors) ==
    /\ flow.pc = "reload"
    /\ \E exc \in errors : flow' = [flow EXCEPT !.pc = "done", !.result = Escapes(exc)]
    /\ UNCHANGED flowRest

FlowLoginErrors == LoginErrors \cup {"CancelledError"}

NextFlow ==
    \/ Flow_Start({"user", "reauth_confirm"}, FlowInputs)
    \/ Flow_LoginReturn
    \/ Flow_LoginRaise(FlowLoginErrors)
    \/ Flow_CloseReturn
    \/ Flow_CloseRaise({"ClientError", "CancelledError"})
    \/ Flow_ReloadReturn
    \/ Flow_ReloadRaise({"ClientError"})

SpecFlow == InitEntry /\ [][NextFlow]_vars

(***************************************************************************)
(* SpecIds: the platforms are set up for an entry whose snapshot holds one *)
(* device with one or two states, or two devices with one state each; the  *)
(* identifiers and state names hold the characters the unique ids replace  *)
(* and others.                                                             *)
(***************************************************************************)
IdUrls == {"a", "a/b", "a:b", "a#b", "a-b", "a_b", "atlantic"}

IdNames == {"b", "c", "b:c", "b_c", "b/c", "b#c", "b-c", "raw:data", "raw_data",
            "core:OnOffState", "explorer:events"}

IdStates ==
    {<<St(n, 45)>> : n \in IdNames}
        \cup {<<St(n, 45), St(m, 45)>> : <<n, m>> \in IdNames \X IdNames}

IdSetups ==
    {[gateways |-> <<"gw-1">>, devices |-> <<Dev(u, "Boiler", TRUE, sts)>>] :
        <<u, sts>> \in IdUrls \X IdStates}
    \cup
    {[gateways |-> <<"gw-1">>,
      devices |-> <<Dev(q[1], "Boiler", TRUE, <<St(q[3], 45)>>),
                    Dev(q[2], "Pump", TRUE, <<St(q[4], 45)>>)>>] :
        q \in {r \in IdUrls \X IdUrls \X IdNames \X IdNames : r[1] # r[2]}}

\* async_setup_entry has stored the record and awaits the platforms
InitIds ==
    \E setup \in IdSetups :
        LET r == process_setup(EmptyMap, <<>>, setup, 0)
        IN  /\ devices = r.devices
            /\ gateways = r.gateways
            /\ last_full_refresh = r.last_full_refresh
            /\ events_log = <<>>
            /\ event_count = 0
            /\ pc = "idle"
            /\ pending = <<>>
            /\ now = 0
            /\ result = Returned
            /\ cycle0 = [devices |-> r.devices, gateways |-> r.gateways,
                         events_log |-> <<>>]
            /\ ops = <<SetupOp(setup, {})>>
            /\ readAt = "none"
            /\ entry_pc = "forward"
            /\ entry_setup = Some(setup)
            /\ coordinator = TRUE
            /\ close_calls = 0
            /\ hass_data = Put(EmptyMap, EntryId, Record(setup))
            /\ platforms = FALSE
            /\ entry_result = NoResult
            /\ client = "logged_in"
            /\ entities = {}
            /\ ToolsIdle

NextIds ==
    \/ SetupEntry_ForwardReturn
    \/ SetupEntry_ForwardRaise({"ImportError"})

SpecIds == InitIds /\ [][NextIds]_vars

(***************************************************************************)
(* Properties.                                                             *)
(***************************************************************************)
LastOp == ops[Len(ops)]

Min(a, b) == IF a < b THEN a ELSE b

\* the step that processes the first pending event
IsProcessStep == pc = "process" /\ pending # <<>> /\ event_count' = event_count + 1

\* the log holds the entries numbered event_count - Len + 1 .. event_count
LogIsTail(log, count) ==
    /\ Len(log) = Min(count, MAX_LOG)
    /\ \A i \in 1..Len(log) : log[i].event_number = count - Len(log) + i

\* C1: the event log never holds more than 1000 entries, and it holds
\* exactly the most recently processed events (all of them while there are
\* at most 1000, the last 1000 afterwards) in processing order: every
\* processed event is entered last, with the next event number, and the
\* entries kept are those with the highest numbers, in ascending order.
C1_LogHoldsMostRecent ==
    [][/\ Len(events_log') <= MAX_LOG
       /\ LogIsTail(events_log', event_count')
       /\ IsProcessStep =>
             /\ events_log'[Len(events_log')]
                   = EventData(Head(pending), event_count + 1, now)
             /\ \A i \in 1..(Len(events_log') - 1) :
                   events_log'[i] = events_log[i + Len(events_log) + 1 - Len(events_log')]
      ]_vars

\* more than 1000 events have been processed and the oldest were evicted
C1_Witness ==
    /\ event_count > MAX_LOG
    /\ Len(events_log) = MAX_LOG
    /\ events_log[1].event_number = event_count - MAX_LOG + 1

\* the step that ends the processing of a batch: either await get_setup()
\* or return
DecidesRefresh == pc = "process" /\ pending = <<>> /\ pc' # "process"

Elapsed == now - last_full_refresh[1]

\* C2: a poll cycle whose fetch and processing succeed performs the full
\* Setup fetch exactly when no resync has occurred or more than 300 seconds
\* have elapsed since last_full_refresh, however long that is.
C2_RefreshIffOver300Seconds ==
    [][DecidesRefresh =>
         ((pc' = "get_setup") <=>
             (last_full_refresh = None \/ Elapsed > Sec(RefreshAfter)))]_vars

\* the step in which get_setup() returns and _process_setup runs
ResyncStep == pc = "get_setup" /\ pc' = "idle" /\ result'.kind = "data"

\* a resync with the Setup of the operation before it, itself a resync
RepeatResync ==
    /\ ResyncStep
    /\ LastOp.kind = "setup"
    /\ ops'[Len(ops')].setup = LastOp.setup

SetupUrls(setup) == {setup.devices[i].device_url : i \in 1..Len(setup.devices)}

SameButTimestamp(d1, d2) ==
    [d1 EXCEPT !.last_updated = 0] = [d2 EXCEPT !.last_updated = 0]

\* C3 (as claimed): a second resync in a row with the same Setup leaves the
\* device mapping equal in every field of every DeviceData.
C3_SecondResyncChangesNothing ==
    [][RepeatResync => devices' = devices]_vars

\* C3 (amended): a second resync in a row with the same Setup leaves the
\* device mapping equal in every field except last_updated, which for each
\* device of the Setup becomes the time of the second run.
C3_SecondResyncChangesOnlyTimestamp ==
    [][RepeatResync =>
         /\ DOMAIN devices' = DOMAIN devices
         /\ \A d \in DOMAIN devices :
               /\ SameButTimestamp(devices'[d], devices[d])
               /\ devices'[d].last_updated =
                     IF d \in SetupUrls(LastOp.setup) THEN now
                     ELSE devices[d].last_updated]_vars

\* two resyncs in a row with the same Setup, the second at a later time
C3_Witness ==
    /\ Len(ops) = 2
    /\ ops[1].kind = "setup" /\ ops[2].kind = "setup"
    /\ ops[1].setup = ops[2].setup
    /\ last_full_refresh # None /\ last_full_refresh[1] > 0
    /\ \E d \in DOMAIN devices : devices[d].last_updated = last_full_refresh[1]

\* C4: after a resync the gateway list holds one descriptor per gateway of
\* the Setup just processed and the device mapping has exactly the
\* identifiers of that Setup.
C4_ResyncReplaces ==
    LastOp.kind = "setup" =>
        /\ gateways = AppendGateways(<<>>, LastOp.setup.gateways)
        /\ DOMAIN devices = SetupUrls(LastOp.setup)

\* C5: every step that changes a DeviceData record sets its last_updated to
\* the time of the step, and never moves it back.
C5_MutationAdvancesLastUpdated ==
    [][\A d \in DOMAIN devices :
          devices'[d] # devices[d] =>
              /\ devices'[d].last_updated = now
              /\ devices'[d].last_updated >= devices[d].last_updated]_vars

Range(seq) == {seq[i] : i \in 1..Len(seq)}

IsPrefix(p, q) == Len(p) <= Len(q) /\ SubSeq(q, 1, Len(p)) = p

\* the last poll cycle ended with an exception
FailedCycle == pc = "idle" /\ result.cause # ""

\* C7 (as claimed): after a failed cycle every device entry, gateway
\* descriptor and log entry of the snapshot as it was when the cycle began
\* is still there.
C7_FailureKeepsEverything ==
    FailedCycle =>
        /\ DOMAIN cycle0.devices \subseteq DOMAIN devices
        /\ IsPrefix(cycle0.gateways, gateways)
        /\ Range(cycle0.events_log) \subseteq Range(events_log)

\* how many of the entries the log had when the cycle began are gone
Evicted ==
    IF cycle0.events_log = <<>> THEN 0
    ELSE events_log[1].event_number - cycle0.events_log[1].event_number

\* C7 (amended): after a failed cycle every device entry and gateway
\* descriptor is still there, the log is not shorter than before, and every
\* log entry is still there, in the same order, unless the events processed
\* before the failure pushed it beyond the 1000 entry cap.
C7_FailureKeepsAllButEvicted ==
    FailedCycle =>
        /\ DOMAIN cycle0.devices \subseteq DOMAIN devices
        /\ IsPrefix(cycle0.gateways, gateways)
        /\ Len(events_log) >= Len(cycle0.events_log)
        /\ Evicted >= 0
        /\ \A i \in 1..Len(cycle0.events_log) :
              IF cycle0.events_log[i].event_number > event_count - MAX_LOG
              THEN i > Evicted /\ events_log[i - Evicted] = cycle0.events_log[i]
              ELSE i <= Evicted

\* a cycle failed after its events evicted the oldest entry of a full log
C7_Witness ==
    /\ FailedCycle
    /\ Len(cycle0.events_log) = MAX_LOG
    /\ cycle0.events_log[1] \notin Range(events_log)

\* C8 (as claimed): a poll cycle ends by returning the snapshot or by
\* raising UpdateFailed, nothing else.
C8_OnlyUpdateFailedEscapes == result.kind \in {"none", "data", "UpdateFailed"}

\* C8 (amended): every exception that is an Exception (an API error of any
\* kind from fetch_events or get_setup, an error raised while processing an
\* event) ends the cycle with UpdateFailed; only the cancellation of the
\* task, which is no Exception, escapes as it is.
C8_ExceptionsBecomeUpdateFailed ==
    /\ result.kind \in {"none", "data", "UpdateFailed", "CancelledError"}
    /\ result.kind \in {"none", "data"} <=> result.cause = ""
    /\ result.kind = "CancelledError" <=> result.cause = "CancelledError"
    /\ result.kind = "UpdateFailed"
          <=> result.cause \in ApiErrors \cup {"AttributeError"}

\* get_setup() raised a rate-limit error after the cycle processed an event
C8_Witness ==
    /\ result = [kind |-> "UpdateFailed", cause |-> "TooManyRequestsException"]
    /\ events_log # cycle0.events_log

IsStateChanged(ev) == ev.name = "DeviceStateChangedEvent"

ItemUrls(ev) == {ev.device_states[i].device_url : i \in 1..Len(ev.device_states)}

\* a well-formed state-changed event none of whose items names a device of devs
NamesOnlyUnknown(ev, devs) ==
    /\ IsStateChanged(ev)
    /\ ev.device_states # <<>>
    /\ Missing \notin ItemUrls(ev)
    /\ ItemUrls(ev) \cap devs = {}

\* C9: processing a state-changed event that names only identifiers absent
\* from the snapshot leaves the device mapping as it was and raises nothing.
C9_UnknownDeviceIsNoOp ==
    [][(IsProcessStep /\ NamesOnlyUnknown(Head(pending), DOMAIN devices)) =>
          /\ devices' = devices
          /\ result' = result
          /\ pc' = "process"]_vars

\* the last event processed named a device that was not in the snapshot
C9_Witness ==
    /\ LastOp.kind = "event"
    /\ NamesOnlyUnknown(LastOp.ev, LastOp.devs)
    /\ "dev-1" \in LastOp.devs

\* the writes a state-changed payload makes, in processing order: one per
\* state of every item before the first item that lacks its identifier
RECURSIVE WritesOf(_)
WritesOf(items) ==
    IF items = <<>> \/ Head(items).device_url = Missing THEN <<>>
    ELSE [j \in 1..Len(Head(items).states) |->
            [url |-> Head(items).device_url,
             name |-> Head(items).states[j].name,
             value |-> Head(items).states[j].value]]
         \o WritesOf(Tail(items))

Sets(ev, d, s) ==
    /\ IsStateChanged(ev)
    /\ \E i \in 1..Len(WritesOf(ev.device_states)) :
          LET w == WritesOf(ev.device_states)[i] IN w.url = d /\ w.name = s

FinalValue(ev, d, s) ==
    LET w == WritesOf(ev.device_states)
        Hit(i) == w[i].url = d /\ w[i].name = s
        last == CHOOSE i \in 1..Len(w) : Hit(i) /\ \A j \in (i + 1)..Len(w) : ~Hit(j)
    IN  w[last].value

StateNamesOf(ev) ==
    {WritesOf(ev.device_states)[i].name : i \in 1..Len(WritesOf(ev.device_states))}

\* two state-changed events in sequence for the same known device and state
\* name: the second value is stored, stamped with the second processing time
SecondEventWins ==
    (IsProcessStep /\ LastOp.kind = "event") =>
        \A d \in DOMAIN devices : \A s \in StateNamesOf(Head(pending)) :
            (Sets(LastOp.ev, d, s) /\ Sets(Head(pending), d, s)) =>
                /\ devices'[d].states[s].value = FinalValue(Head(pending), d, s)
                /\ devices'[d].last_updated = now

\* after a resync every state of every device of the Setup has the Setup's
\* value (the last one listed, should a name or identifier repeat)
SetupValuesStored ==
    LastOp.kind = "setup" =>
        LET devs == LastOp.setup.devices IN
        \A i \in 1..Len(devs) :
            (\A j \in (i + 1)..Len(devs) : devs[j].device_url # devs[i].device_url) =>
                LET sts == devs[i].states IN
                \A k \in 1..Len(sts) :
                    (\A m \in (k + 1)..Len(sts) : sts[m].name # sts[k].name) =>
                        /\ devs[i].device_url \in DOMAIN devices
                        /\ sts[k].name \in DOMAIN devices[devs[i].device_url].states
                        /\ devices[devs[i].device_url].states[sts[k].name].value
                              = sts[k].value

\* a stored state value changes only in a resync or in the processing of a
\* state-changed event that names that device and state
ValueKeptUntilOverwritten ==
    \A d \in DOMAIN devices : \A s \in DOMAIN devices[d].states :
        (\/ s \notin DOMAIN devices'[d].states
         \/ devices'[d].states[s].value # devices[d].states[s].value)
            => (ResyncStep \/ (IsProcessStep /\ Sets(Head(pending), d, s)))

\* C10: state updates are last-value-wins in processing order: of two
\* state-changed events in sequence for the same known device and state the
\* second value is stored and last_updated is its processing time; a value
\* normalized from a Setup is stored and stays until a state-changed event
\* for that device and state, or a resync, overwrites it.
C10_LastValueWins ==
    []SetupValuesStored /\ [][SecondEventWins /\ ValueKeptUntilOverwritten]_vars

\* two state-changed events in a row set the same state of a known device
\* to different values, and the second is the one stored
C10_Witness ==
    /\ Len(ops) = 2
    /\ ops[1].kind = "event" /\ ops[2].kind = "event"
    /\ \E d \in ops[1].devs : \E s \in StateNamesOf(ops[2].ev) :
          /\ Sets(ops[1].ev, d, s) /\ Sets(ops[2].ev, d, s)
          /\ FinalValue(ops[1].ev, d, s) # FinalValue(ops[2].ev, d, s)
          /\ devices[d].states[s].value = FinalValue(ops[2].ev, d, s)
          /\ devices[d].last_updated > 0

\* C11: processing a state-changed event stamps every device its payload
\* names that is present in the snapshot with the processing time, whether
\* or not a state value changed.
C11_NamedDeviceIsStamped ==
    [][(IsProcessStep /\ IsStateChanged(Head(pending))) =>
          \A d \in ItemUrls(Head(pending)) \cap DOMAIN devices :
              devices'[d].last_updated = now]_vars

IsAvailability(ev) == ev.name \in {"DeviceAvailableEvent", "DeviceUnavailableEvent"}

AvailabilityOf(ev) == ev.name = "DeviceAvailableEvent"

Max(S) == CHOOSE x \in S : \A y \in S : y <= x

\* the availability events for device d among the last operations that no
\* resync followed
AvailabilityEvents(d) ==
    {i \in 1..Len(ops) :
        /\ IsAvailability(ops[i].ev)
        /\ ops[i].ev.device_url = d
        /\ \A j \in i..Len(ops) : ops[j].kind = "event"}

\* a known device's flag is the kind of the last availability event for it
LastAvailabilityWins ==
    \A d \in DOMAIN devices :
        AvailabilityEvents(d) # {} =>
            devices[d].available = AvailabilityOf(ops[Max(AvailabilityEvents(d))].ev)

\* an availability event for a known device sets the flag to its kind and
\* touches no other flag; no other event touches a flag
AvailabilitySetsFlag ==
    IsProcessStep =>
        \A d \in DOMAIN devices :
            devices'[d].available =
                IF IsAvailability(Head(pending)) /\ Head(pending).device_url = d
                THEN AvailabilityOf(Head(pending))
                ELSE devices[d].available

\* an availability event for an identifier that is not in the snapshot only
\* appends its record to the log
UnknownAvailabilityIsDropped ==
    (/\ IsProcessStep
     /\ IsAvailability(Head(pending))
     /\ Head(pending).device_url \notin DOMAIN devices) =>
        /\ devices' = devices
        /\ gateways' = gateways
        /\ last_full_refresh' = last_full_refresh
        /\ events_log' = Append(events_log, EventData(Head(pending), event_count + 1, now))
        /\ result' = result
        /\ pc' = "process"

\* C12: a device-unavailable event for a known device sets available to
\* FALSE and a device-available event sets it to TRUE, so after a sequence
\* of events the flag of a known device is the kind of the last availability
\* event for it; an availability event for an unknown identifier changes
\* nothing in the snapshot but the log, which gets the event's record.
C12_AvailabilityFollowsLastEvent ==
    []LastAvailabilityWins /\ [][AvailabilitySetsFlag /\ UnknownAvailabilityIsDropped]_vars

\* a known device was reported unavailable and then available again
C12_Witness ==
    /\ Len(ops) = 2
    /\ ops[1].ev = Unavailable("dev-1") /\ "dev-1" \in ops[1].devs
    /\ ops[2].ev = Available("dev-1")
    /\ devices["dev-1"].available

\* the key set is what it was before the last operation, joined with the
\* identifiers of the Setup when that operation was a resync
KeysAfterLastOp ==
    DOMAIN devices =
        IF LastOp.kind = "setup" THEN LastOp.devs \cup SetupUrls(LastOp.setup)
        ELSE LastOp.devs

IsLogOnly(ev) ==
    ev.name \notin {"DeviceStateChangedEvent", "DeviceAvailableEvent",
                    "DeviceUnavailableEvent"}

\* C14: processing a device-created event, a device-updated event or an
\* event of any name other than state-changed, device-available and
\* device-unavailable leaves devices, gateways and last_full_refresh as
\* they were, raises nothing, and adds exactly one entry, the event's
\* record, at the end of the log.
C14_OtherEventsAreOnlyLogged ==
    [][(IsProcessStep /\ IsLogOnly(Head(pending))) =>
          /\ devices' = devices
          /\ gateways' = gateways
          /\ last_full_refresh' = last_full_refresh
          /\ Len(events_log') = Min(Len(events_log) + 1, MAX_LOG)
          /\ events_log'[Len(events_log')]
                = EventData(Head(pending), event_count + 1, now)
          /\ \A i \in 1..(Len(events_log') - 1) :
                events_log'[i] = events_log[i + Len(events_log) + 1 - Len(events_log')]
          /\ result' = result
          /\ pc' = "process"]_vars

\* a device-created event for an identifier the snapshot does not have,
\* then a device-updated event for one it has, were logged and nothing more
C14_Witness ==
    /\ Len(ops) = 2
    /\ ops[1].ev = Created("dev-9") /\ ops[2].ev = Updated("dev-1")
    /\ "dev-9" \notin DOMAIN devices /\ "dev-1" \in DOMAIN devices
    /\ Len(events_log) = 2
    /\ events_log[2].name = "DeviceUpdatedEvent"

\* the fetched events still to be processed once the step is taken
Remaining == IF IsProcessStep THEN Tail(pending) ELSE pending

LeavesProcessing == pc = "process" /\ pc' # "process"

\* C15 (as claimed): every fetched event is applied: a cycle stops
\* processing only when none of the fetched events is left.
C15_EveryEventAppliedOnce ==
    [][LeavesProcessing => Remaining = <<>>]_vars

\* C15 (amended): the fetched events are processed in delivery order, each
\* at most once, and each processed event puts exactly one entry, its own,
\* at the end of the log (below the cap), so the log order is the
\* processing order; all the fetched events are processed unless the
\* processing of one raises: then that event is logged, the cycle fails and
\* the events after it are not applied.
C15_AppliedInOrderUntilRaise ==
    [][/\ IsProcessStep =>
             /\ events_log' = Append(events_log,
                                     EventData(Head(pending), event_count + 1, now))
             /\ \/ pc' = "process" /\ pending' = Tail(pending) /\ result' = result
                \/ pc' = "idle" /\ result'.cause = "AttributeError"
       /\ (LeavesProcessing /\ result'.cause = "") => pending = <<>>
       /\ pending' # pending => (IsProcessStep \/ pc = "fetch_events")
       /\ events_log' # events_log => IsProcessStep]_vars

\* two different events fetched in one cycle were logged in delivery order
C15_Witness ==
    /\ pc = "process" /\ pending = <<>>
    /\ cycle0.events_log = <<>>
    /\ Len(ops) = 2 /\ ops[1].kind = "event" /\ ops[2].kind = "event"
    /\ ops[1].ev # ops[2].ev
    /\ Len(events_log) = 2
    /\ events_log[1].raw = ops[1].ev /\ events_log[2].raw = ops[2].ev
    /\ events_log[1].event_number = 1 /\ events_log[2].event_number = 2

\* the moves of _async_update_data from one position to the next
CycleEdges ==
    { <<"idle", "fetch_events">>,
      <<"fetch_events", "process">>, <<"fetch_events", "idle">>,
      <<"process", "get_setup">>, <<"process", "idle">>,
      <<"get_setup", "idle">> }

\* C16: a poll cycle goes from idle to the fetch of the events, to their
\* processing, then, if a refresh is due, to the fetch of the Setup and its
\* normalization, and back to idle: get_setup is requested only when every
\* fetched event has been processed, a request is issued only when the
\* other is not in flight, each is issued at most once in a cycle (the
\* cycle enters each position once), no event is processed once get_setup
\* is requested, and a cycle that succeeds returns the snapshot after the
\* last event, or after the normalization when a refresh was due.
C16_CycleFollowsStateMachine ==
    [][/\ pc' # pc => <<pc, pc'>> \in CycleEdges
       /\ pc' = "get_setup" /\ pc # "get_setup" =>
             pending = <<>> /\ NeedFullRefresh(last_full_refresh, now)
       /\ pc = "get_setup" => events_log' = events_log /\ pending' = pending
       /\ pc = "fetch_events" => UNCHANGED data
       /\ (pc' = "idle" /\ pc # "idle" /\ result'.kind = "data") =>
             \/ pc = "process" /\ pending = <<>>
                   /\ ~NeedFullRefresh(last_full_refresh, now) /\ UNCHANGED data
             \/ pc = "get_setup" /\ last_full_refresh' = Some(now)
       /\ (pc' = "idle" /\ pc # "idle") => result' # NoResult
       /\ (pc = "idle" /\ pc' # "idle") => result' = NoResult]_vars

\* a cycle processed an event, then fetched and normalized the Setup, and
\* returned the snapshot
C16_Witness ==
    /\ pc = "idle" /\ result = Returned
    /\ Len(ops) = 2 /\ ops[1].kind = "event" /\ ops[2].kind = "setup"
    /\ Len(events_log) = Len(cycle0.events_log) + 1
    /\ last_full_refresh = Some(now) /\ now > 0

\* C17: every entry of the device mapping is stored under its own
\* device_url, so no two entries have the same identifier; a Setup that
\* lists an identifier twice leaves one entry for it.
C17_KeyIsDeviceUrl ==
    /\ \A k \in DOMAIN devices : devices[k].device_url = k
    /\ LastOp.kind = "setup" =>
          /\ SetupUrls(LastOp.setup) \subseteq DOMAIN devices
          /\ Cardinality(DOMAIN devices)
                = Cardinality(LastOp.devs \cup SetupUrls(LastOp.setup))

\* a Setup that lists dev-1 twice was normalized: one entry, the later one
C17_Witness ==
    /\ LastOp.kind = "setup"
    /\ LastOp.setup = SetupD
    /\ DOMAIN devices = {"dev-1"}
    /\ devices["dev-1"].label = "Boiler-bis"

\* the state names a state-changed event writes on device d
WrittenNames(ev, d) ==
    {WritesOf(ev.device_states)[i].name :
        i \in {j \in 1..Len(WritesOf(ev.device_states)) :
                  WritesOf(ev.device_states)[j].url = d}}

SameButStates(d1, d2) ==
    [d1 EXCEPT !.states = EmptyMap, !.last_updated = 0]
        = [d2 EXCEPT !.states = EmptyMap, !.last_updated = 0]

\* a state-changed event changes, on the devices it names, the states it
\* lists (and last_updated) and nothing else
EventIsPartialUpdate ==
    (IsProcessStep /\ IsStateChanged(Head(pending))) =>
        /\ DOMAIN devices' = DOMAIN devices
        /\ \A d \in DOMAIN devices :
              LET names == WrittenNames(Head(pending), d) IN
              /\ SameButStates(devices'[d], devices[d])
              /\ DOMAIN devices'[d].states = DOMAIN devices[d].states \cup names
              /\ \A s \in DOMAIN devices[d].states \ names :
                    devices'[d].states[s] = devices[d].states[s]
              /\ \A s \in names :
                    devices'[d].states[s].value = FinalValue(Head(pending), d, s)
              /\ names = {} => devices'[d] = devices[d]

\* the last device of a Setup with identifier d
LastWith(setup, d) ==
    setup.devices[Max({i \in 1..Len(setup.devices) : setup.devices[i].device_url = d})]

StateNames(device) == {device.states[i].name : i \in 1..Len(device.states)}

\* a resync replaces the whole entry of every device of the Setup: its
\* states are those the Setup lists, with the Setup's values, and its other
\* fields are the Setup's; the other entries stay as they are
ResyncIsFullReplace ==
    ResyncStep =>
        LET setup == ops'[Len(ops')].setup IN
        /\ \A d \in SetupUrls(setup) :
              LET device == LastWith(setup, d) IN
              /\ DOMAIN devices'[d].states = StateNames(device)
              /\ \A i \in 1..Len(device.states) :
                    (\A j \in (i + 1)..Len(device.states) :
                        device.states[j].name # device.states[i].name) =>
                    devices'[d].states[device.states[i].name].value
                        = device.states[i].value
              /\ devices'[d].label = device.label
              /\ devices'[d].available = device.available
              /\ devices'[d].commands = device.commands
              /\ devices'[d].last_updated = now
        /\ \A d \in DOMAIN devices \ SetupUrls(setup) : devices'[d] = devices[d]

\* C18: event processing is a partial update and a resync is a full
\* replace: a state-changed event changes only the state names it lists on
\* the devices it names (every other state name, the attributes, label,
\* available, commands and every other device stay), while a resync
\* replaces every field of each device of the Setup, so a value an earlier
\* event set is overwritten by the Setup's value and a state name the Setup
\* does not list is gone from that device.
C18_PartialUpdateFullReplace ==
    [][EventIsPartialUpdate /\ ResyncIsFullReplace]_vars

\* an event added state s2 to dev-1 and changed nothing else; the resync
\* that followed, with a Setup that lists only s1, removed it
C18_Witness ==
    /\ Len(ops) = 2
    /\ ops[1].ev = StateChanged(<<Item("dev-1", <<St("s2", 7)>>)>>)
    /\ "dev-1" \in ops[1].devs
    /\ ops[2].kind = "setup" /\ ops[2].setup = SetupA
    /\ DOMAIN devices["dev-1"].states = {"s1"}

\* the step in which the login, the initial get_setup or the logging of the
\* Setup fails with an exception
SetupFails ==
    /\ entry_pc \in {"login", "get_setup", "log_setup"}
    /\ entry_pc' = "not_loaded"
    /\ IsException(entry_result'.cause)

BadCredentials == {"BadCredentialsException", "CozyTouchBadCredentialsException"}

\* C19: a bad-credentials failure of the login ends async_setup_entry with
\* ConfigEntryAuthFailed; a rate-limit, maintenance or other failure of the
\* login, and every failure of the initial get_setup or of the logging of
\* the Setup, ends it with ConfigEntryNotReady; in none of these cases has
\* a coordinator been created, is a record stored or a platform set up.
C19_SetupFailuresAreClassified ==
    [][SetupFails =>
          /\ entry_result'.kind =
                IF entry_pc = "login" /\ entry_result'.cause \in BadCredentials
                THEN "ConfigEntryAuthFailed"
                ELSE "ConfigEntryNotReady"
          /\ ~coordinator /\ ~coordinator'
          /\ hass_data' = hass_data
          /\ ~platforms /\ ~platforms']_vars

\* the login failed with a subclass of the bad-credentials exception: the
\* setup ended with ConfigEntryAuthFailed and left nothing behind
C19_Witness ==
    /\ entry_pc = "not_loaded"
    /\ entry_result = AuthFailed("CozyTouchBadCredentialsException")
    /\ ~coordinator
    /\ hass_data = EmptyMap
    /\ ~platforms

RecordExists == EntryId \in DOMAIN hass_data

\* C20: the registry holds the entry's record exactly from its activation
\* (the record is stored for the platforms' setup, which ends the
\* activation) to its deactivation: never while the entry is not loaded or
\* being set up, always while it is loaded or its platforms are being
\* unloaded; client.close() is called at most once, and only once the
\* platforms were unloaded and the record removed.
C20_RecordFromActivationToDeactivation ==
    /\ RecordExists =>
          entry_pc \in {"forward", "loaded", "unload_platforms", "failed_unload"}
    /\ entry_pc \in {"forward", "loaded", "unload_platforms"} => RecordExists
    /\ close_calls <= 1
    /\ close_calls = 1 =>
          ~RecordExists /\ ~platforms
             /\ entry_pc \in {"close", "not_loaded", "failed_unload"}

\* the step in which a poll cycle ends with an exception
CycleFails == pc # "idle" /\ pc' = "idle" /\ result'.cause # ""

\* C23: a failing poll cycle is not atomic: when the processing of an event
\* raises, its log entry (appended before the dispatch) and the writes its
\* handler made before raising stay, with everything the earlier events of
\* the cycle did, and the events after it are dropped; when fetch_events or
\* get_setup raises, or the cycle is cancelled, the snapshot stays as the
\* processed events left it.  Nothing is rolled back.
C23_FailedCycleKeepsPartialWork ==
    [][CycleFails =>
          /\ gateways' = gateways
          /\ last_full_refresh' = last_full_refresh
          /\ pending' = <<>>
          /\ IF pc = "process"
             THEN /\ events_log' = Append(events_log,
                                         EventData(Head(pending), event_count + 1, now))
                  /\ event_count' = event_count + 1
                  /\ DOMAIN devices' = DOMAIN devices
                  /\ \A d \in DOMAIN devices :
                        /\ \A s \in WrittenNames(Head(pending), d) :
                              devices'[d].states[s].value
                                 = FinalValue(Head(pending), d, s)
                        /\ \A s \in DOMAIN devices[d].states
                                    \ WrittenNames(Head(pending), d) :
                              devices'[d].states[s] = devices[d].states[s]
             ELSE UNCHANGED <<devices, events_log, event_count>>]_vars

\* the second event of a batch raised after its handler had written a
\* state: both events are in the log, the write is in the snapshot
C23_Witness ==
    /\ FailedCycle /\ result.cause = "AttributeError"
    /\ cycle0.events_log = <<>> /\ Len(events_log) = 2
    /\ events_log[2].raw = LastOp.ev
    /\ WritesOf(LastOp.ev.device_states) # <<>>
    /\ "dev-1" \in DOMAIN devices
    /\ devices["dev-1"].states["s1"].value = 46
    /\ cycle0.devices["dev-1"].states["s1"].value = 45

\* the entries of the log are numbered consecutively up to the counter
LogNumbering ==
    /\ event_count >= Len(events_log)
    /\ events_log # <<>> => events_log[Len(events_log)].event_number = event_count
    /\ \A i \in 1..(Len(events_log) - 1) :
          events_log[i + 1].event_number = events_log[i].event_number + 1

\* C25: the event counter is never reset and counts every processed event:
\* it grows by one with each processed event and never otherwise, the
\* entry of an event carries the number of events processed up to it, the
\* numbers of consecutive entries differ by one, the counter is at least
\* the length of the log and equals the number of the last entry.
C25_CounterNumbersTheLog ==
    /\ []LogNumbering
    /\ [][/\ event_count' \in {event_count, event_count + 1}
          /\ event_count' = event_count + 1 => (pc = "process" /\ pending # <<>>)
          /\ (pc = "process" /\ pending' # pending) => event_count' = event_count + 1
          /\ event_count' = event_count + 1 =>
                events_log'[Len(events_log')].raw = Head(pending)]_vars

\* more events were processed than the log holds, and the numbering went on
C25_Witness ==
    /\ event_count = MAX_LOG + 2
    /\ Len(events_log) = MAX_LOG
    /\ events_log[MAX_LOG].event_number = MAX_LOG + 2
    /\ events_log[1].event_number = 3

IsStateEntity(e) == e.kind \in {"state", "binary_state"}

\* the devices a coordinator constructed from this Setup holds
SetupDevices(setup) == process_setup(EmptyMap, <<>>, setup, 0).devices

\* C24: a state-changed event for a known device that names a state the
\* device's states mapping does not hold creates the entry, with the
\* event's value, so the state names of a device grow through events; the
\* entities are those the platforms created at their setup, from the states
\* present then, and no poll cycle adds one: a state that appeared later
\* has no entity.
C24_EventsAddStatesNotEntities ==
    /\ entities = PlatformSetup(SetupDevices(entry_setup[1]))
    /\ [][/\ entities' = entities
          /\ (IsProcessStep /\ IsStateChanged(Head(pending))) =>
                \A d \in DOMAIN devices :
                   \A n \in WrittenNames(Head(pending), d) \ DOMAIN devices[d].states :
                      /\ n \in DOMAIN devices'[d].states
                      /\ devices'[d].states[n].value = FinalValue(Head(pending), d, n)
                      /\ (\/ d \notin DOMAIN SetupDevices(entry_setup[1])
                          \/ n \notin DOMAIN SetupDevices(entry_setup[1])[d].states) =>
                            \A e \in entities' :
                               ~(IsStateEntity(e) /\ e.device_url = d
                                    /\ e.state_name = n)]_vars

\* an event gave the device of SetupA the state s2: the snapshot holds it,
\* the entities are still those of s1
C24_Witness ==
    /\ entry_setup = Some(SetupA)
    /\ LastOp.kind = "event" /\ Sets(LastOp.ev, "dev-1", "s2")
    /\ "dev-1" \in DOMAIN devices
    /\ DOMAIN devices["dev-1"].states = {"s1", "s2"}
    /\ AtlanticStateSensor("dev-1", "s1") \in entities
    /\ AtlanticStateSensor("dev-1", "s2") \notin entities

\* the steps of async_setup_entry and async_unload_entry
EntryEdges ==
    {<<"not_loaded", "login">>, <<"login", "get_setup">>, <<"get_setup", "log_setup">>,
     <<"log_setup", "first_refresh">>, <<"first_refresh", "forward">>,
     <<"forward", "loaded">>,
     <<"login", "not_loaded">>, <<"get_setup", "not_loaded">>,
     <<"log_setup", "not_loaded">>, <<"first_refresh", "not_loaded">>,
     <<"forward", "not_loaded">>,
     <<"loaded", "unload_platforms">>, <<"unload_platforms", "loaded">>,
     <<"unload_platforms", "close">>, <<"unload_platforms", "failed_unload">>,
     <<"close", "not_loaded">>, <<"close", "failed_unload">>}

\* what async_setup_entry has done when it is at each of its steps
SetupProgress ==
    /\ entry_pc = "login" => client = "created" /\ entry_setup = None /\ ~coordinator
    /\ entry_pc = "get_setup" =>
          client = "logged_in" /\ entry_setup = None /\ ~coordinator
    /\ entry_pc = "log_setup" =>
          client = "logged_in" /\ entry_setup # None /\ ~coordinator
    /\ entry_pc = "first_refresh" =>
          client = "logged_in" /\ entry_setup # None /\ coordinator
    /\ entry_pc = "forward" =>
          /\ client = "logged_in" /\ coordinator
          /\ result.kind = "data"
          /\ RecordExists /\ hass_data[EntryId] = Record(entry_setup[1])
          /\ ~platforms
    /\ platforms => RecordExists /\ coordinator

\* C27: async_setup_entry takes its steps in one order: with an unknown
\* server it returns False without creating a client or logging in;
\* otherwise login, get_setup, the coordinator's construction, the first
\* refresh, the storing of the record and then the forwarding to the
\* platforms, whose setup runs with the record present.
C27_SetupStepsInOrder ==
    /\ []SetupProgress
    /\ [][/\ entry_pc' # entry_pc => <<entry_pc, entry_pc'>> \in EntryEdges
          /\ (entry_pc = "not_loaded" /\ entry_pc' = "not_loaded"
                 /\ entry_result' # entry_result) =>
                /\ entry_result'.kind = "False" /\ client' = "none"
                /\ UNCHANGED <<coordVars, hass_data, platforms, entities>>
          /\ (entry_pc = "first_refresh" /\ entry_pc' = "forward") =>
                hass_data' = Put(hass_data, EntryId, Record(entry_setup[1]))
          /\ entities' \notin {entities, {}} =>
                /\ entry_pc = "forward" /\ entry_pc' = "loaded"
                /\ RecordExists /\ UNCHANGED hass_data
                /\ entities' = PlatformSetup(devices)]_vars

\* a setup went through all its steps: the platforms are set up, with the
\* record of the coordinator in the registry
C27_Witness ==
    /\ entry_pc = "loaded" /\ entry_result.kind = "True"
    /\ client = "logged_in" /\ coordinator /\ platforms
    /\ RecordExists
    /\ AtlanticRawDataSensor("dev-1") \in entities
    /\ event_count > 0

\* C29: every client async_setup_entry creates is closed: when the setup
\* has failed after creating the client, and when the entry has been
\* unloaded, close() has been called on it.
C29_CreatedClientIsClosed ==
    (entry_pc = "not_loaded" /\ client # "none") => close_calls >= 1

Separators == {"/", ":", "#", "-", "_"}

\* the characters of str, those of olds replaced by an underscore
Normalized(str, olds) ==
    [i \in 1..Len(str) |-> IF str[i] \in olds THEN "_" ELSE str[i]]

\* the literal that ends the unique id of an entity of this kind
Suffix(e) == IF e.kind = "binary_state" THEN Chars("_binary") ELSE <<>>

\* C22 (as claimed): in the unique id of a state entity every character of
\* the device identifier and of the state name that is not alphanumeric is
\* replaced by an underscore.
C22_EverySeparatorIsReplaced ==
    \A e \in entities :
       IsStateEntity(e) =>
          e.unique_id = Normalized(Chars(e.device_url), Separators) \o <<"_">>
                           \o Normalized(Chars(e.state_name), Separators)
                           \o Suffix(e)

\* C22: the unique id of a state entity is a function of the device
\* identifier, the state name and the kind of the entity: the identifier
\* with each of its characters "/", ":" and "#" replaced by an underscore,
\* an underscore, then the state name with each ":" replaced by an
\* underscore (and "_binary" for a binary sensor); every other character
\* is kept as it is.
C22_UniqueIdReplacesSomeSeparators ==
    /\ \A e \in entities :
          IsStateEntity(e) =>
             e.unique_id = Normalized(Chars(e.device_url), {"/", ":", "#"}) \o <<"_">>
                              \o Normalized(Chars(e.state_name), {":"})
                              \o Suffix(e)
    /\ \A e, f \in entities :
          (IsStateEntity(e) /\ IsStateEntity(f) /\ e.kind = f.kind
              /\ e.device_url = f.device_url /\ e.state_name = f.state_name) =>
             e.unique_id = f.unique_id

\* the platforms created the sensors of a device whose identifier and state
\* names hold replaced and kept characters
C22_Witness ==
    /\ entry_pc = "loaded"
    /\ \E e \in entities :
          /\ e.kind = "state" /\ e.device_url = "a#b" /\ e.state_name = "b:c"
          /\ e.unique_id = <<"a", "_", "b", "_", "b", "_", "c">>
    /\ \E e \in entities :
          /\ e.kind = "state" /\ e.device_url = "a#b" /\ e.state_name = "b/c"
          /\ e.unique_id = <<"a", "_", "b", "_", "b", "/", "c">>

\* C30: no two entities the platforms created for the entry on the same
\* platform have the same unique id.
C30_UniqueIdsDiffer ==
    \A e, f \in entities :
       (e.platform = f.platform /\ e # f) => e.unique_id # f.unique_id

ScriptExited == script.pc = "exited"

\* C21 (as claimed): the script exits with a non-zero status only when
\* pyoverkiz is missing; every other run exits with status zero and has
\* attempted to write the report file.
C21_NonZeroOnlyWithoutPyoverkiz ==
    ScriptExited =>
       IF script.installed THEN script.exit = Some(0) /\ script.written
       ELSE script.exit # Some(0)

\* the calls whose exception no try of the script catches
Unguarded == {"process", "places", "close"}

\* C21: the script exits with status 1 when pyoverkiz is missing and with
\* status 2 when a required option is missing; with -h, or with
\* --list-servers and the required options, it exits zero without writing
\* a report.  On every other run it attempts to write the report and
\* exits zero (unknown server: an empty report; login failure: an error
\* report; setup-fetch failure and failures of scenarios, action groups or
\* events: the report with the errors recorded), unless an exception
\* leaves the reading of the Setup or client.close(), which ends the run
\* with status 1 before the write, or the write itself raises.
C21_ExitStatusOfTheScript ==
    ScriptExited =>
       IF ~script.installed THEN script.exit = Some(1) /\ ~script.written
       ELSE LET args == script.args[1] IN
            /\ args.help => script.exit = Some(0) /\ ~script.written
            /\ (~args.help /\ (~args.email \/ ~args.password)) =>
                  script.exit = Some(2) /\ ~script.written
            /\ (~args.help /\ args.email /\ args.password /\ args.list_servers) =>
                  script.exit = Some(0) /\ ~script.written
            /\ (~args.help /\ args.email /\ args.password /\ ~args.list_servers) =>
                  IF script.fails \cap Unguarded # {}
                  THEN script.exit = Some(1) /\ ~script.written
                  ELSE /\ script.written
                       /\ script.exit = IF "write" \in script.fails THEN Some(1)
                                         ELSE Some(0)
                       /\ ~KnownServer(args.server) => script.report = Some(EmptyReport)
                       /\ (KnownServer(args.server) /\ "login" \in script.fails) =>
                             script.report[1].kind = "error"
                       /\ (KnownServer(args.server) /\ "login" \notin script.fails) =>
                             /\ script.report[1].kind = "report"
                             /\ Range(script.report[1].errors)
                                   = {IF f = "get_setup" THEN "setup" ELSE f :
                                         f \in script.fails \ {"write"}}

\* a run with scenarios and events failing wrote its report and exited zero
C21_Witness ==
    /\ ScriptExited /\ script.exit = Some(0) /\ script.written
    /\ script.fails = {"scenarios", "events"}
    /\ script.report[1].errors = <<"scenarios", "events">>

\* the form error the claim gives for a failure of the validation
ClaimedError(exc) ==
    IF IsInstance(exc, "BadCredentialsException") THEN "invalid_auth"
    ELSE IF IsInstance(exc, "TooManyRequestsException") THEN "too_many_requests"
    ELSE IF IsInstance(exc, "MaintenanceException") THEN "server_maintenance"
    ELSE "unknown"

\* C28: in the config flow a validation that created a client has closed
\* it exactly once when it ends, whatever login() did; a config entry is
\* created only after a successful login; in the user step each failure of
\* the login shows the form again with its error (bad credentials:
\* invalid_auth, rate limit: too_many_requests, maintenance:
\* server_maintenance, anything else and an unknown server: unknown),
\* unless the step is cancelled; in the reauth step the password is updated and the entry reloaded only
\* after a successful validation.
C28_FlowValidatesAndCloses ==
    /\ (flow.pc \in {"done", "reload"} /\ flow.client = "created") =>
          flow.close_calls = 1
    /\ flow.client = "none" => flow.close_calls = 0
    /\ flow.entry_created => (flow.step = "user" /\ flow.login = "ok")
    /\ (flow.step = "user" /\ flow.pc = "done" /\ flow.login \notin {"", "ok"}
           /\ IsException(flow.login) /\ IsException(flow.raised)) =>
          /\ flow.result = ShowForm("user", ClaimedError(flow.login))
          /\ flow.form = [step_id |-> "user", errors |-> ClaimedError(flow.login)]
    /\ (flow.step = "user" /\ flow.pc = "done" /\ flow.client = "none"
           /\ flow.raised = "ValueError") =>
          flow.result = ShowForm("user", "unknown")
    /\ (flow.password_updated \/ flow.reloaded) =>
          (flow.step = "reauth_confirm" /\ flow.login = "ok" /\ flow.raised = "")
====
